---- MODULE Spec2Model ----
(***************************************************************************)
(* A model of btn_cache: the API token-window limiter (ratelimit.py), the  *)
(* metadata-db update operators (metadata_db.py) and the scraper daemon    *)
(* lifecycle (scrape.py).                                                  *)
(*                                                                         *)
(* Time is an integer clock (time.monotonic()).  Period is chosen as the   *)
(* least common multiple of 1..MaxCalls so that the float expression       *)
(* now - i * period / delta of set_remaining is exact in integers.         *)
(***************************************************************************)
EXTENDS Integers, Sequences, FiniteSets, TLC

\* ------------------------------------------------------------------ bounds
MaxCalls == 3
ExtraTime == 2
MaxGrants == 5
MaxSets == 1
NumIds == 3
MaxEntries == 2
MaxStreak == 9
DaemonMaxTime == 3
SiteBurst == 1
SiteInterval == 3
MaxBurst == 7
MaxRequests == 6
MaxWait == 2
MaxResult == 3
MaxFiles == 2
MaxLength == 2
RaceMaxTime == 2
MaxFeed == 2
MaxTotal == 2
MaxPeriod == 3
SnatchMaxTime == 5
BackoffMaxTime == 510
RaisesMaxTime == 3

\* ------------------------------------------------------------ small helpers
Min2(a, b) == IF a <= b THEN a ELSE b

Max2(a, b) == IF a >= b THEN a ELSE b

RECURSIVE Gcd(_, _)
Gcd(a, b) == IF b = 0 THEN a ELSE Gcd(b, a % b)

RECURSIVE LcmUpTo(_)
LcmUpTo(n) == IF n <= 1 THEN 1 ELSE (LcmUpTo(n - 1) * n) \div Gcd(LcmUpTo(n - 1), n)

\* APIRateLimiter(max_calls, period): the window length, in clock ticks
Period == LcmUpTo(MaxCalls)

MaxTime == Period + ExtraTime

Threads == {"main", "second"}

\* the thread of a caller whose calls come one after another
Sequential == {"main"}

\* list.sort() of a list of timestamps
RECURSIVE InsertSorted(_, _)
InsertSorted(s, x) ==
    IF s = <<>> THEN <<x>>
    ELSE IF x < s[1] THEN <<x>> \o s
    ELSE <<s[1]>> \o InsertSorted(Tail(s), x)

RECURSIVE ListSort(_)
ListSort(s) == IF s = <<>> THEN <<>> ELSE InsertSorted(ListSort(Tail(s)), s[1])

\* ------------------------------------------------------------------- state
VARIABLES
    now,        \* time.monotonic()
    calls,      \* APIRateLimiter._calls
    blocking,   \* APIRateLimiter._blocking
    lpc,        \* per thread: position inside APIRateLimiter.__call__
    lwait,      \* per thread: wait_time computed by _try_call / wait deadline
    notified,   \* per thread: a notify_all reached the thread's condition.wait
    lres,       \* per thread: outcome of the last acquire ("none", "ok", "WouldBlock")
    grants,     \* history: the times at which acquire() returned successfully,
                \* kept while recording
    recording,  \* history: grants are recorded (no set_remaining call so far)
    nsets,      \* history: the number of set_remaining calls so far
    sr,         \* history: the set_remaining call made at this instant (k = -1: none)
                \* and the acquire() outcomes since
    lcaught,    \* history, per thread: the thread was inside a refused acquire() when
                \* set_blocking(False) ran ("in"), and how that acquire() ended
                \* ("WouldBlock", "ok")
    lnow,       \* per thread: the value of now that _try_call read and has not used
                \* yet under the lock (NoClock: none)
    refusal,    \* history, per thread: the last acquire() that _try_call refused, the
                \* window it met, the wait_time it computed, and what became of an
                \* acquire() made when that wait_time had passed
    series,     \* table series
    groups,     \* table torrent_entry_group
    entries,    \* table torrent_entry
    file_info,  \* table file_info: per torrent entry id and file_index a row
    obs,        \* history: what the last apply() did to the tables
    kind,       \* the daemon's class: "metadata", "snatchlist" or "tip"
    dpc,        \* the daemon thread's position in run()
    terminated, \* _Base._terminated
    tpc,        \* the position of the thread that calls terminate()
    fail_streak, \* run(): fail_streak
    dwake,      \* run(): the deadline of the wait_for in progress
    changes,    \* MetadataTipScraper._changes
    start_time, \* SnatchlistScraper._start_time
    zero_time,  \* RateLimiter._zero_time of the site limiter
    sburst,     \* RateLimiter._burst of the site limiter, multiplied by SiteInterval
    sgrants,    \* history: the times at which the site limiter's acquire() returned
                \* successfully, kept while recording
    sblocking,  \* RateLimiter._blocking of the site limiter
    spc,        \* per thread: position inside RateLimiter.__call__
    swait,      \* per thread: the site limiter's wait_time / wait deadline
    snotified,  \* per thread: a notify_all reached the thread's wait in the site limiter
    scaught,    \* history, per thread: as lcaught, for the site limiter
    adapter,    \* the _RateLimitAdapter mounted on the session: the position of the
                \* thread inside send, and history: the requests it was given, the
                \* calls of its gate and of its upstream adapter, what the gate did
                \* and what send raised
    catalog,    \* the site's torrent catalog: per id the time of the entry, 0: none
    d_offset,   \* MetadataScraper._offset / SnatchlistScraper._offset
    last,       \* history: what the last _step_inner asked for, got and returned
    snatchlist, \* table snatchlist of the user database
    period,     \* SnatchlistScraper._period
    exc,        \* history: the exception that ended the last step inside _step_inner
    sup,        \* btn_scrape.main: its position, and the other daemon it runs
    atTerm,     \* history: where the daemon thread was when terminate() was called
    lateCalls   \* history: limiter gates passed after terminate() returned

limVars == <<now, calls, blocking, lpc, lwait, notified, lres, grants, recording, nsets, sr,
             lcaught, refusal, lnow>>

dbVars == <<series, groups, entries, file_info, obs>>

bucketVars == <<zero_time, sburst, sgrants, sblocking, spc, swait, snotified, scaught>>

siteVars == <<bucketVars, adapter>>

pageVars == <<catalog, d_offset, last, snatchlist, period>>

stepVars == <<pageVars, exc>>

soloVars == <<kind, stepVars, dpc, terminated, tpc, fail_streak, dwake, changes, start_time,
              atTerm, lateCalls>>

runVars == <<sup, soloVars>>

dmVars == <<runVars, siteVars>>

nonLimVars == <<dbVars, dmVars>>

vars == <<limVars, dbVars, dmVars>>

NoSr == [k |-> -1, prior |-> 0, at |-> 0, ok |-> 0, blocked |-> FALSE]

\* ---------------------------------------------------------- APIRateLimiter
RECURSIVE TrimOld(_, _)
TrimOld(c, n) ==
    IF c # <<>> /\ c[1] <= n - Period THEN TrimOld(Tail(c), n) ELSE c

RECURSIVE TrimNew(_, _)
TrimNew(c, n) ==
    IF c # <<>> /\ c[Len(c)] > n THEN TrimNew(SubSeq(c, 1, Len(c) - 1), n) ELSE c

\* APIRateLimiter._trim
Trim(c, n) == TrimNew(TrimOld(c, n), n)

\* Python `del s[k:]` for k >= 0: keeps the first k elements
PyDelFrom(s, k) == SubSeq(s, 1, Min2(k, Len(s)))

\* a variant counting i from 1 to delta: the oldest synthetic timestamp is now - period
SyntheticFromOne(n, delta) == [i \in 1..delta |-> n - (i * Period) \div delta]

\* the synthetic timestamps of set_remaining: now - i * period / delta, i in range(delta)
Synthetic(n, delta) == [i \in 1..delta |-> n - ((i - 1) * Period) \div delta]

\* a variant of set_remaining that trims and never adds or drops a stamp
SetRemainingCallsNoFill(c, n, remaining) == Trim(c, n)

\* APIRateLimiter.set_remaining: the new _calls
SetRemainingCalls(c, n, remaining) ==
    LET t == Trim(c, n)
        delta == MaxCalls - Len(t) - remaining
    IN  IF delta > 0 THEN ListSort(t \o Synthetic(n, delta))
        ELSE IF delta < 0 THEN PyDelFrom(t, -delta)
        ELSE t

\* a variant admitting one call too many
CanCallOffByOne(c, n) == Len(Trim(c, n)) <= MaxCalls

\* APIRateLimiter._try_call, first locked region: does the call pass?
CanCall(c, n) == Len(Trim(c, n)) + 1 <= MaxCalls

\* a wait_time counted from the newest call of the window
WaitTimeNewest(c, n) ==
    LET t == Trim(c, n)
        newest == t[Len(t)]
    IN  Max2(newest + Period - n, 0)

\* APIRateLimiter._try_call: wait_time when the call does not pass
WaitTime(c, n) ==
    LET t == Trim(c, n)
        nth_oldest == t[Len(t) - MaxCalls + 1]
    IN  Max2(nth_oldest + Period - n, 0)

\* usable passages left in the current window
Usable(c, n) == MaxCalls - Len(Trim(c, n))

\* Condition.notify_all: every thread parked in condition.wait is woken
NotifyAll(pc) == [t \in Threads |-> pc[t] = "waiting"]

\* history: a thread caught inside acquire() passes, or raises WouldBlock
CaughtAfterPass(c) == IF c = "in" THEN "ok" ELSE "no"

CaughtAfterRaise(c) == IF c = "in" THEN "WouldBlock" ELSE "no"

\* history: set_blocking(b) runs while the threads are at positions pc
CaughtBy(b, pc, caught) ==
    [t \in Threads |->
        IF b THEN (IF caught[t] = "in" THEN "no" ELSE caught[t])
        ELSE IF pc[t] \in {"checked", "waiting"} THEN "in"
        ELSE caught[t]]

\* the thread holds no clock value
NoClock == -1

\* no refused acquire() is on record
NoRefusal == [st |-> "none", at |-> 0, wait |-> 0, n |-> 0, oldest |-> 0, kept |-> TRUE]

\* _try_call at time n does not append: the window it met and its wait_time; an
\* acquire() that was refused again when the wait_time of a raised WouldBlock
\* had passed stays on record as refused
Refuse(r, c, n) ==
    IF r.st = "raised" /\ n = r.at + r.wait THEN [r EXCEPT !.st = "refused"]
    ELSE IF r.st = "refused" THEN r
    ELSE [st |-> "pending", at |-> n, wait |-> WaitTime(c, n), n |-> Len(Trim(c, n)),
          oldest |-> Trim(c, n)[1], kept |-> TRUE]

\* _try_call raises WouldBlock: the wait_time is handed out; kept tells that the
\* window is as _try_call left it
Raise(r, c) ==
    IF r.st = "pending" THEN [r EXCEPT !.st = "raised", !.kept = (Len(c) = r.n)] ELSE r

\* _try_call at time n appends: the thread's own record is settled, the other
\* threads' records end since a passage came in between
Retried(rs, t, n) ==
    [u \in Threads |->
        IF u = t /\ rs[u].st = "raised" /\ n = rs[u].at + rs[u].wait
        THEN [rs[u] EXCEPT !.st = "passed"]
        ELSE IF rs[u].st = "refused" THEN rs[u]
        ELSE NoRefusal]

\* the clock reaches n: records of a wait_time that has run out end
Elapsed(rs, n) ==
    [u \in Threads |->
        IF rs[u].st = "passed" \/ (rs[u].st = "raised" /\ rs[u].at + rs[u].wait < n)
        THEN NoRefusal ELSE rs[u]]

LimInit ==
    /\ now = 0
    /\ calls = <<>>
    /\ blocking \in BOOLEAN
    /\ lpc = [t \in Threads |-> "idle"]
    /\ lwait = [t \in Threads |-> 0]
    /\ notified = [t \in Threads |-> FALSE]
    /\ lres = [t \in Threads |-> "none"]
    /\ grants = <<>>
    /\ recording \in BOOLEAN
    /\ nsets = 0
    /\ sr = NoSr
    /\ lcaught = [t \in Threads |-> "no"]
    /\ refusal = [t \in Threads |-> NoRefusal]
    /\ lnow = [t \in Threads |-> NoClock]

\* _try_call of thread t, first locked region, with n the value that
\* time.monotonic() returned before the lock was taken
Locked(t, n) ==
    /\ lpc[t] \in {"idle", "retry"}
    /\ Len(grants) < MaxGrants
    /\ IF CanCall(calls, n)
       THEN /\ calls' = Append(Trim(calls, n), n)
            /\ grants' = IF recording THEN Append(grants, now) ELSE grants
            /\ lpc' = [lpc EXCEPT ![t] = "idle"]
            /\ lres' = [lres EXCEPT ![t] = "ok"]
            /\ lwait' = [lwait EXCEPT ![t] = 0]
            /\ sr' = IF sr.k >= 0 /\ sr.at = now THEN [sr EXCEPT !.ok = @ + 1] ELSE sr
            /\ lcaught' = [lcaught EXCEPT ![t] = CaughtAfterPass(@)]
            /\ refusal' = Retried(refusal, t, n)
       ELSE /\ calls' = Trim(calls, n)
            /\ grants' = grants
            /\ lwait' = [lwait EXCEPT ![t] = WaitTime(calls, n)]
            /\ lpc' = [lpc EXCEPT ![t] = IF WaitTime(calls, n) > 0 THEN "checked" ELSE "retry"]
            /\ lres' = [lres EXCEPT ![t] = "none"]
            /\ sr' = IF sr.k >= 0 /\ sr.at = now THEN [sr EXCEPT !.blocked = TRUE] ELSE sr
            /\ lcaught' = IF lpc[t] = "idle" THEN [lcaught EXCEPT ![t] = "no"] ELSE lcaught
            /\ refusal' = [refusal EXCEPT ![t] = Refuse(@, calls, n)]
    /\ UNCHANGED <<now, blocking, notified, recording, nsets>>

\* one _try_call of thread t (entered from __call__, or again after a wait)
\* that is not overtaken between reading the clock and taking the lock
TryCall(t) == lnow[t] = NoClock /\ Locked(t, now) /\ lnow' = lnow

\* _try_call: now = time.monotonic(), before the lock is taken
ReadClock(t) ==
    /\ lpc[t] \in {"idle", "retry"}
    /\ lnow[t] = NoClock
    /\ lnow' = [lnow EXCEPT ![t] = now]
    /\ UNCHANGED <<now, calls, blocking, lpc, lwait, notified, lres, grants, recording, nsets,
                   sr, lcaught, refusal>>

\* _try_call: the lock is taken, with the clock value read before
LockedTryCall(t) ==
    /\ lnow[t] # NoClock
    /\ Locked(t, lnow[t])
    /\ lnow' = [lnow EXCEPT ![t] = NoClock]

\* _try_call, second locked region: raise WouldBlock, or park in condition.wait
WaitOrRaise(t) ==
    /\ lpc[t] = "checked"
    /\ IF ~blocking
       THEN /\ lpc' = [lpc EXCEPT ![t] = "idle"]
            /\ lres' = [lres EXCEPT ![t] = "WouldBlock"]
            /\ lwait' = [lwait EXCEPT ![t] = 0]
            /\ lcaught' = [lcaught EXCEPT ![t] = CaughtAfterRaise(@)]
            /\ refusal' = [refusal EXCEPT ![t] = Raise(@, calls)]
       ELSE /\ lpc' = [lpc EXCEPT ![t] = "waiting"]
            /\ lwait' = [lwait EXCEPT ![t] = now + lwait[t]]
            /\ lres' = lres
            /\ lcaught' = lcaught
            /\ refusal' = [refusal EXCEPT ![t] = IF @.st = "refused" THEN @ ELSE NoRefusal]
    /\ notified' = [notified EXCEPT ![t] = FALSE]
    /\ UNCHANGED <<now, calls, blocking, grants, recording, nsets, sr, lnow>>

\* condition.wait(wait_time) returns: timeout or notify_all; _try_call returns False
Wake(t) ==
    /\ lpc[t] = "waiting"
    /\ now >= lwait[t] \/ notified[t]
    /\ lpc' = [lpc EXCEPT ![t] = "retry"]
    /\ lwait' = [lwait EXCEPT ![t] = 0]
    /\ notified' = [notified EXCEPT ![t] = FALSE]
    /\ UNCHANGED <<now, calls, blocking, lres, grants, recording, nsets, sr, lcaught, refusal, lnow>>

\* APIRateLimiter.set_blocking
SetBlocking(b) ==
    /\ blocking' = b
    /\ notified' = NotifyAll(lpc)
    /\ lcaught' = CaughtBy(b, lpc, lcaught)
    /\ UNCHANGED <<now, calls, lpc, lwait, lres, grants, recording, nsets, sr, refusal, lnow>>

\* APIRateLimiter.set_remaining
SetRemaining(remaining) ==
    /\ \A t \in Threads : lpc[t] = "idle"
    /\ nsets < MaxSets
    /\ calls' = SetRemainingCalls(calls, now, remaining)
    /\ sr' = [k |-> remaining, prior |-> Usable(calls, now), at |-> now, ok |-> 0,
              blocked |-> FALSE]
    /\ lres' = [t \in Threads |-> "none"]
    /\ grants' = <<>>
    /\ recording' = FALSE
    /\ nsets' = nsets + 1
    /\ refusal' = [t \in Threads |-> NoRefusal]
    /\ UNCHANGED <<now, blocking, lpc, lwait, notified, lcaught, lnow>>

\* the clock advances
Tick ==
    /\ now < MaxTime
    /\ now' = now + 1
    /\ sr' = NoSr
    /\ refusal' = Elapsed(refusal, now + 1)
    /\ UNCHANGED <<calls, blocking, lpc, lwait, notified, lres, grants, recording, nsets, lcaught, lnow>>


\* ------------------------------------------------------------ metadata_db
\* The tables series, torrent_entry_group and torrent_entry are functions from
\* ids to rows; a row that is not in the table has present = FALSE.  Of the
\* columns the model keeps the keys, the parent references, time and deleted.
SeriesIds == 1..2

GroupIds == 1..2

Times == 1..3

TorrentIds == 1..NumIds

NoSeries == [present |-> FALSE, deleted |-> FALSE]

NoGroup == [present |-> FALSE, series_id |-> 0, deleted |-> FALSE]

NoEntry == [present |-> FALSE, group_id |-> 0, time |-> 0, deleted |-> FALSE]

\* _te_json_to_rows: the three rows derived from one API torrent entry
SeriesRowOf(e) == [present |-> TRUE, deleted |-> FALSE]

GroupRowOf(e) == [present |-> TRUE, series_id |-> e.SeriesID, deleted |-> FALSE]

EntryRowOf(e) == [present |-> TRUE, group_id |-> e.GroupID, time |-> e.Time, deleted |-> FALSE]

\* {row["id"]: row for row in rows}: the last entry of the update carrying key id
LastIndex(es, key, id) ==
    LET hits == {i \in 1..Len(es) : es[i][key] = id}
    IN  CHOOSE i \in hits : \A j \in hits : j <= i

KeysOf(es, key) == {es[i][key] : i \in 1..Len(es)}

\* TorrentEntriesUpdate.__init__: the deduplicated rows, by id
SeriesRows(es) == [id \in KeysOf(es, "SeriesID") |-> SeriesRowOf(es[LastIndex(es, "SeriesID", id)])]

GroupRows(es) == [id \in KeysOf(es, "GroupID") |-> GroupRowOf(es[LastIndex(es, "GroupID", id)])]

TeRows(es) == [id \in KeysOf(es, "TorrentID") |-> EntryRowOf(es[LastIndex(es, "TorrentID", id)])]

\* a variant of the upsert statement without its where clause: every incoming row is written
WrittenAlways(table, rows) == DOMAIN rows

\* insert ... on conflict (id) do update set ... where <a column differs>:
\* the ids of the rows the statement writes
Written(table, rows) == {id \in DOMAIN rows : ~table[id].present \/ table[id] # rows[id]}

\* the table after the upsert statement
Upserted(table, rows) == [id \in DOMAIN table |-> IF id \in DOMAIN rows THEN rows[id] ELSE table[id]]

\* a variant of _update_series that inserts nothing
UpsertedNot(table, rows) == table

\* _update_series / _update_groups / _update_torrent_entries
UpdateSeries(table, rows) == Upserted(table, rows)

UpdateGroups(table, rows) == Upserted(table, rows)

UpdateTorrentEntries(table, rows) == Upserted(table, rows)

\* the order used by UnfilteredGetTorrentsResultUpdate: sorted by (-time, -id)
Before(t1, i1, t2, i2) == t1 < t2 \/ (t1 = t2 /\ i1 < i2)

\* _ordered_te_rows[-1] and _ordered_te_rows[0]: the ids of the slice extremes
OldestId(rows) ==
    CHOOSE i \in DOMAIN rows : \A j \in DOMAIN rows :
        j = i \/ Before(rows[i].time, i, rows[j].time, j)

NewestId(rows) ==
    CHOOSE i \in DOMAIN rows : \A j \in DOMAIN rows :
        j = i \/ Before(rows[j].time, j, rows[i].time, i)

\* self._offset + len(self._te_rows) >= self._total
IsFinal(offset, rows, total) == offset + Cardinality(DOMAIN rows) >= total

\* update torrent_entry set deleted = 1 where time <= ? and id < ? and not deleted
TailDeleted(table, oldestTime, oldestId) ==
    [id \in DOMAIN table |->
        LET row == table[id]
        IN  IF row.present /\ row.time <= oldestTime /\ id < oldestId /\ ~row.deleted
            THEN [row EXCEPT !.deleted = TRUE] ELSE row]

\* a variant of the mid-range statement with non-strict time bounds
MidDeletedInclusive(table, newestTime, oldestTime, ids) ==
    [id \in DOMAIN table |->
        LET row == table[id]
        IN  IF row.present /\ ~row.deleted /\ row.time <= newestTime
               /\ row.time >= oldestTime /\ id \notin ids
            THEN [row EXCEPT !.deleted = TRUE] ELSE row]

\* update torrent_entry set deleted = 1 where (not deleted) and time < ? and
\* time > ? and id not in (select id from temp.ids)
MidDeleted(table, newestTime, oldestTime, ids) ==
    [id \in DOMAIN table |->
        LET row == table[id]
        IN  IF row.present /\ ~row.deleted /\ row.time < newestTime
               /\ row.time > oldestTime /\ id \notin ids
            THEN [row EXCEPT !.deleted = TRUE] ELSE row]

\* UnfilteredGetTorrentsResultUpdate.apply, after super().apply(): the
\* torrent_entry table after the deletion statements
\* a variant of apply without the early return, whose final slice without
\* rows deletes every entry
SweepDeletedEmptyFinal(table, offset, rows, total) ==
    IF DOMAIN rows = {}
    THEN IF IsFinal(offset, rows, total)
         THEN [id \in DOMAIN table |->
                  IF table[id].present THEN [table[id] EXCEPT !.deleted = TRUE] ELSE table[id]]
         ELSE table
    ELSE LET o == OldestId(rows)
             n == NewestId(rows)
             t1 == IF IsFinal(offset, rows, total)
                   THEN TailDeleted(table, rows[o].time, o) ELSE table
         IN  MidDeleted(t1, rows[n].time, rows[o].time, DOMAIN rows)

SweepDeleted(table, offset, rows, total) ==
    IF DOMAIN rows = {} THEN table
    ELSE LET o == OldestId(rows)
             n == NewestId(rows)
             t1 == IF IsFinal(offset, rows, total)
                   THEN TailDeleted(table, rows[o].time, o) ELSE table
         IN  MidDeleted(t1, rows[n].time, rows[o].time, DOMAIN rows)

\* ---------------------------------------------------- metadata_db: actions
NoObs ==
    [op |-> "none", rewritten |-> {}, second |-> {}, updated |-> FALSE, skipped |-> FALSE,
     moved |-> FALSE, final |-> FALSE, resultDeleted |-> {}, strays |-> {}, missedMid |-> {},
     missedTail |-> {}, nonFinalTail |-> {}, newlyMid |-> FALSE, newlyTail |-> FALSE,
     revived |-> FALSE]

\* ----------------------------------------------------- metadata_db: file_info
\* the torrent entry that gets file info
InfoIds == {1}

FileIndexes == 0..(MaxFiles - 1)

\* no row at (id, file_index)
NoFile == [present |-> FALSE, names |-> "none", encoding |-> "null", start |-> 0, stop |-> 0]

NoFileInfo == [id \in InfoIds |-> [i \in FileIndexes |-> NoFile]]

\* the file dicts of a metafile: a length, and whether path.utf-8 is there
\* beside path
FileDicts == [length : 0..MaxLength, path_utf8 : BOOLEAN]

\* info dicts: with a files list (multi) or with a length, and whether
\* name.utf-8 is there beside name
InfoDicts ==
    [multi : {TRUE}, name_utf8 : BOOLEAN, length : {0},
     files : UNION {[1..n -> FileDicts] : n \in 0..MaxFiles}]
        \cup [multi : {FALSE}, name_utf8 : BOOLEAN, length : 0..MaxLength, files : {<<>>}]

\* offset before file k + 1: the lengths of the first k files added up
RECURSIVE OffsetOf(_, _)
OffsetOf(files, k) == IF k = 0 THEN 0 ELSE OffsetOf(files, k - 1) + files[k].length

\* a choice of keys made file by file
Utf8PerFile(info, k) == info.name_utf8 /\ info.files[k].path_utf8

\* utf8 = b"name.utf-8" in info_dict and all(b"path.utf-8" in v for v in files),
\* as used for file k
Utf8(info, k) == info.name_utf8 /\ \A j \in 1..Len(info.files) : info.files[j].path_utf8

\* ParsedTorrentInfoUpdate.__init__: the rows, file_index = position - 1
ParsedRows(info) ==
    IF info.multi
    THEN [k \in 1..Len(info.files) |->
            [present |-> TRUE,
             names |-> IF Utf8(info, k) THEN "utf-8" ELSE "legacy",
             encoding |-> IF Utf8(info, k) THEN "utf-8" ELSE "null",
             start |-> OffsetOf(info.files, k - 1),
             stop |-> OffsetOf(info.files, k - 1) + info.files[k].length]]
    ELSE <<[present |-> TRUE,
            names |-> IF info.name_utf8 THEN "utf-8" ELSE "legacy",
            encoding |-> IF info.name_utf8 THEN "utf-8" ELSE "null",
            start |-> 0,
            stop |-> info.length]>>

\* the total length of the files of an info dict
TotalLength(info) == IF info.multi THEN OffsetOf(info.files, Len(info.files)) ELSE info.length

\* insert into file_info ... on conflict (id, file_index) do update, for each row
FileInfoUpserted(t, id, rows) ==
    [t EXCEPT ![id] = [i \in FileIndexes |-> IF i + 1 <= Len(rows) THEN rows[i + 1] ELSE @[i]]]

\* TorrentInfoUpdate(id, info).apply(conn)
InfoApply(id, info) ==
    /\ file_info' = IF ParsedRows(info) = <<>> THEN file_info
                    ELSE FileInfoUpserted(file_info, id, ParsedRows(info))
    /\ obs' = [op |-> "info", id |-> id, info |-> info, rows |-> ParsedRows(info)]
    /\ UNCHANGED <<series, groups, entries>>

\* the rows of one id in the order of (start, file_index)
RECURSIVE ByStart(_, _)
ByStart(t, S) ==
    IF S = {} THEN <<>>
    ELSE LET i == CHOOSE i \in S : \A j \in S :
                      t[i].start < t[j].start \/ (t[i].start = t[j].start /\ i <= j)
         IN  <<t[i]>> \o ByStart(t, S \ {i})

FileRows(t) == ByStart(t, {i \in FileIndexes : t[i].present})

\* a fresh database: the three tables are empty
DbInit ==
    /\ series = [id \in SeriesIds |-> NoSeries]
    /\ groups = [id \in GroupIds |-> NoGroup]
    /\ entries = [id \in TorrentIds |-> NoEntry]
    /\ file_info = NoFileInfo
    /\ obs = NoObs

\* TorrentEntriesUpdate.__init__(*es): the update holds the deduplicated rows
TorrentEntriesUpdate(es) ==
    [series_rows |-> SeriesRows(es), group_rows |-> GroupRows(es), te_rows |-> TeRows(es)]

\* the rows of the three tables update u writes, tagged with the table
WrittenRows(s, g, e, u) ==
    {<<"series", id>> : id \in Written(s, u.series_rows)}
        \cup {<<"group", id>> : id \in Written(g, u.group_rows)}
        \cup {<<"entry", id>> : id \in Written(e, u.te_rows)}

\* the rows of update u that are stored already with exactly the incoming values
SameRows(s, g, e, u) ==
    {<<"series", id>> : id \in {i \in DOMAIN u.series_rows : s[i] = u.series_rows[i]}}
        \cup {<<"group", id>> : id \in {i \in DOMAIN u.group_rows : g[i] = u.group_rows[i]}}
        \cup {<<"entry", id>> : id \in {i \in DOMAIN u.te_rows : e[i] = u.te_rows[i]}}

\* what applying u to (s, g, e) left behind, for the history variable
UpsertObs(s, g, e, s2, g2, e2, u) ==
    [NoObs EXCEPT
        !.op = "upsert",
        !.rewritten = WrittenRows(s, g, e, u) \cap SameRows(s, g, e, u),
        !.second = WrittenRows(s2, g2, e2, u)
                     \cup (IF <<UpdateSeries(s2, u.series_rows), UpdateGroups(g2, u.group_rows),
                                UpdateTorrentEntries(e2, u.te_rows)>> = <<s2, g2, e2>>
                           THEN {} ELSE {<<"changed", 0>>}),
        !.updated = \/ \E id \in DOMAIN u.group_rows : g[id].present /\ g[id] # u.group_rows[id]
                    \/ \E id \in DOMAIN u.te_rows : e[id].present /\ e[id] # u.te_rows[id],
        !.skipped = SameRows(s, g, e, u) # {},
        !.moved = /\ \E id \in DOMAIN u.group_rows :
                        g[id].present /\ g[id].series_id # u.group_rows[id].series_id
                  /\ \E id \in DOMAIN u.te_rows :
                        e[id].present /\ e[id].group_id # u.te_rows[id].group_id]

\* TorrentEntriesUpdate.apply(conn)
EntityUpsert(u) ==
    /\ series' = UpdateSeries(series, u.series_rows)
    /\ groups' = UpdateGroups(groups, u.group_rows)
    /\ entries' = UpdateTorrentEntries(entries, u.te_rows)
    /\ file_info' = file_info
    /\ obs' = UpsertObs(series, groups, entries, series', groups', entries', u)

\* (time, id) of row id of table t lies strictly between the slice extremes o and n
StrictlyBetween(t, id, rows, o, n) ==
    /\ Before(rows[o].time, o, t[id].time, id)
    /\ Before(t[id].time, id, rows[n].time, n)

\* (time, id) of row id of table t is strictly older than the slice's oldest entry o
StrictlyOlder(t, id, rows, o) == Before(t[id].time, id, rows[o].time, o)

\* the ids this apply newly marks deleted
NewlyDeleted(before, after) ==
    {id \in DOMAIN before : before[id].present /\ ~before[id].deleted /\ after[id].deleted}

\* what a sweep apply left behind, for the history variable
SweepObs(before, after, offset, rows, total) ==
    IF DOMAIN rows = {} THEN [NoObs EXCEPT !.op = "sweep",
                                           !.strays = NewlyDeleted(before, after)]
    ELSE
    LET ids == DOMAIN rows
        o == OldestId(rows)
        n == NewestId(rows)
        final == IsFinal(offset, rows, total)
        newly == NewlyDeleted(before, after)
        live == {id \in DOMAIN after : after[id].present /\ ~after[id].deleted /\ id \notin ids}
    IN  [NoObs EXCEPT
            !.op = "sweep",
            !.final = final,
            !.resultDeleted = {id \in ids : after[id].deleted},
            !.strays = {id \in newly :
                            \/ id \in ids
                            \/ ~ \/ StrictlyBetween(after, id, rows, o, n)
                                 \/ final /\ StrictlyOlder(after, id, rows, o)},
            !.missedMid = {id \in live : StrictlyBetween(after, id, rows, o, n)},
            !.missedTail = IF final THEN {id \in live : StrictlyOlder(after, id, rows, o)} ELSE {},
            !.nonFinalTail = IF final THEN {}
                             ELSE {id \in newly : StrictlyOlder(after, id, rows, o)},
            !.newlyMid = \E id \in newly : StrictlyBetween(after, id, rows, o, n),
            !.newlyTail = \E id \in newly : StrictlyOlder(after, id, rows, o),
            !.revived = \E id \in ids : before[id].present /\ before[id].deleted]

\* UnfilteredGetTorrentsResultUpdate(offset, {results: total, torrents: ...}).apply(conn)
SweepApply(offset, u, total) ==
    /\ series' = UpdateSeries(series, u.series_rows)
    /\ groups' = UpdateGroups(groups, u.group_rows)
    /\ entries' = SweepDeleted(UpdateTorrentEntries(entries, u.te_rows), offset, u.te_rows, total)
    /\ file_info' = file_info
    /\ obs' = SweepObs(entries, entries', offset, u.te_rows, total)

Offsets == 0..1

\* the result counts tried with an update: one entry lies beyond the slice at
\* offset 0, none at offset 1
Totals(u) == {Cardinality(DOMAIN u.te_rows) + 1}

\* ------------------------------------------- metadata_db: sweep specification
\* the API torrent entries of the sweep specification: one group, one series
SweepEntry(id, time) == [TorrentID |-> id, GroupID |-> 1, SeriesID |-> 1, Time |-> time]

\* a slice as a sequence: result["torrents"].values()
RECURSIVE SliceSeq(_)
SliceSeq(f) ==
    IF DOMAIN f = {} THEN <<>>
    ELSE LET i == CHOOSE x \in DOMAIN f : \A y \in DOMAIN f : x <= y
         IN  <<SweepEntry(i, f[i])>> \o SliceSeq([j \in DOMAIN f \ {i} |-> f[j]])

Slices == {SliceSeq(f) : f \in UNION {[S -> Times] : S \in SUBSET TorrentIds}}

SweepUpdates == {TorrentEntriesUpdate(es) : es \in Slices}

\* the rows a cached torrent entry can hold after earlier sweeps
CachedEntries ==
    {NoEntry} \cup [present : {TRUE}, group_id : {1}, time : Times, deleted : BOOLEAN]

\* a cache left by earlier sweeps: any set of entries, live or deleted, with
\* their group and series rows
DbCached ==
    /\ entries \in [TorrentIds -> CachedEntries]
    /\ groups = [id \in GroupIds |->
                    IF id = 1 /\ \E e \in TorrentIds : entries[e].present
                    THEN [present |-> TRUE, series_id |-> 1, deleted |-> FALSE] ELSE NoGroup]
    /\ series = [id \in SeriesIds |->
                    IF id = 1 /\ \E e \in TorrentIds : entries[e].present
                    THEN [present |-> TRUE, deleted |-> FALSE] ELSE NoSeries]
    /\ file_info = NoFileInfo
    /\ obs = NoObs

\* --------------------------------------- metadata_db: upsert specification
\* the API torrent entries of the upsert specification
UpsertIds == 1..2

UpsertEntries ==
    [TorrentID : UpsertIds, GroupID : GroupIds, SeriesID : SeriesIds, Time : {1}]

UpsertInputs == UNION {[1..n -> UpsertEntries] : n \in 0..MaxEntries}

UpsertUpdates == {TorrentEntriesUpdate(es) : es \in UpsertInputs}

\* -------------------------------------------------------------- RateLimiter
\* WouldBlock.wait_time and RequestWouldBlock.wait_time default to None
NoWait == -1

\* what a call of the gate or of send ends with: it returns, or raises an
\* exception of class cls that carries wait_time
Ended(cls, wait) == [cls |-> cls, wait |-> wait]

\* ratelimit_session: the adapter is mounted and has sent nothing
NoRequest == [pc |-> "idle", reqs |-> 0, gates |-> 0, sends |-> 0,
              gate |-> Ended("none", NoWait), raised |-> Ended("none", NoWait),
              sent |-> FALSE]

\* the site limiter hands out one token every SiteInterval ticks (rate =
\* 1 / SiteInterval) and holds at most SiteBurst tokens; token counts are kept
\* multiplied by SiteInterval, so that a burst of sburst / SiteInterval tokens
\* need not be whole

\* a bucket that keeps filling beyond burst
SiteHaveNoCap(z, n) == n - z

\* min((now - zero_time) * rate, burst)
SiteHave(z, n) == Min2(n - z, sburst)

\* have >= 1
SiteCanCall(z, n) == SiteHave(z, n) >= SiteInterval

\* now - remaining / rate, with remaining = have - 1
SiteZeroAfter(z, n) == n - (SiteHave(z, n) - SiteInterval)

\* max((1 - have) / rate, 0)
SiteWaitTime(z, n) == Max2(SiteInterval - SiteHave(z, n), 0)

\* RateLimiter.__init__ with burst b / SiteInterval; zero_time = -inf is kept as
\* the latest time at which the bucket is full
RateLimiterInit(b, blk) ==
    /\ sburst = b
    /\ zero_time = 0 - b
    /\ sgrants = <<>>
    /\ sblocking = blk
    /\ spc = [t \in Threads |-> "idle"]
    /\ swait = [t \in Threads |-> 0]
    /\ snotified = [t \in Threads |-> FALSE]
    /\ scaught = [t \in Threads |-> "no"]
    /\ adapter = NoRequest

\* the site limiter that btn_scrape constructs
SiteInit ==
    /\ sburst = SiteBurst * SiteInterval
    /\ zero_time = 0 - SiteBurst * SiteInterval
    /\ sgrants = <<>>
    /\ sblocking = TRUE
    /\ spc = [t \in Threads |-> "idle"]
    /\ swait = [t \in Threads |-> 0]
    /\ snotified = [t \in Threads |-> FALSE]
    /\ scaught = [t \in Threads |-> "no"]
    /\ adapter = NoRequest

\* one RateLimiter._try_call of thread t, first locked region
SiteTry(t) ==
    /\ spc[t] \in {"idle", "retry"}
    /\ IF SiteCanCall(zero_time, now)
       THEN /\ zero_time' = SiteZeroAfter(zero_time, now)
            /\ sgrants' = IF recording THEN Append(sgrants, now) ELSE sgrants
            /\ spc' = [spc EXCEPT ![t] = "idle"]
            /\ swait' = [swait EXCEPT ![t] = 0]
            /\ scaught' = [scaught EXCEPT ![t] = CaughtAfterPass(@)]
       ELSE /\ zero_time' = zero_time
            /\ sgrants' = sgrants
            /\ spc' = [spc EXCEPT ![t] =
                           IF SiteWaitTime(zero_time, now) > 0 THEN "checked" ELSE "retry"]
            /\ swait' = [swait EXCEPT ![t] = SiteWaitTime(zero_time, now)]
            /\ scaught' = IF spc[t] = "idle" THEN [scaught EXCEPT ![t] = "no"] ELSE scaught
    /\ UNCHANGED <<sburst, sblocking, snotified, adapter>>

\* RateLimiter._try_call, second locked region: raise WouldBlock, or park in
\* condition.wait
SiteWaitRaise(t) ==
    /\ spc[t] = "checked"
    /\ IF ~sblocking
       THEN /\ spc' = [spc EXCEPT ![t] = "idle"]
            /\ swait' = [swait EXCEPT ![t] = 0]
            /\ scaught' = [scaught EXCEPT ![t] = CaughtAfterRaise(@)]
       ELSE /\ spc' = [spc EXCEPT ![t] = "waiting"]
            /\ swait' = [swait EXCEPT ![t] = now + swait[t]]
            /\ scaught' = scaught
    /\ snotified' = [snotified EXCEPT ![t] = FALSE]
    /\ UNCHANGED <<zero_time, sburst, sgrants, sblocking, adapter>>

\* the site limiter's condition.wait(wait_time) returns
SiteWoken(t) ==
    /\ spc[t] = "waiting"
    /\ now >= swait[t] \/ snotified[t]
    /\ spc' = [spc EXCEPT ![t] = "retry"]
    /\ swait' = [swait EXCEPT ![t] = 0]
    /\ snotified' = [snotified EXCEPT ![t] = FALSE]
    /\ UNCHANGED <<zero_time, sburst, sgrants, sblocking, scaught, adapter>>

\* RateLimiter.set_blocking
SiteSetBlocking(b) ==
    /\ sblocking' = b
    /\ snotified' = NotifyAll(spc)
    /\ scaught' = CaughtBy(b, spc, scaught)
    /\ UNCHANGED <<zero_time, sburst, sgrants, spc, swait, adapter>>

\* ------------------------------------------------------------------- daemons
Kinds == {"metadata", "snatchlist", "tip"}

TipWait == 60

BackoffCap == 300

SnatchPeriod == 3600

RECURSIVE Pow2(_)
Pow2(n) == IF n = 0 THEN 1 ELSE 2 * Pow2(n - 1)

\* a variant of the backoff without the cap
BackoffNoCap(streak) == Pow2(streak)

\* min(2 ** fail_streak, 300)
Backoff(streak) == Min2(Pow2(streak), BackoffCap)

\* api_types.ErrorCode
InvalidApiKey == -32001

CallLimitExceeded == -32002

\* an error code the client has no class for
OtherErrorCode == -32000

\* an exception: its class, the HTTP status of its response or the code of the
\* API error, and its message
Exc(cls, status, msg) == [cls |-> cls, status |-> status, msg |-> msg]

\* no exception
NoExc == Exc("none", 0, "")

\* the step returned a wait time
Return0 == Exc("return", 0, "")

NonFatal == Exc("NonFatal", 0, "")

\* the base class of every exception class that occurs
Base(cls) ==
    CASE cls \in {"HTTPError", "ConnectionError", "RequestWouldBlock"} -> "RequestException"
      [] cls = "WouldBlock" -> "Error"
      [] cls \in {"CallLimitExceededError", "InvalidAPIKeyError"} -> "APIError"
      [] cls \in {"OperationalError", "IntegrityError"} -> "DatabaseError"
      [] OTHER -> "Exception"

\* isinstance(exception of class cls, base), as an except clause tests it
RECURSIVE IsA(_, _)
IsA(cls, base) ==
    IF cls = base THEN TRUE
    ELSE IF cls \in {"Exception", "none", "return"} THEN FALSE
    ELSE IsA(Base(cls), base)

\* _mk_api_error: the class raised for an error object of the API
\* an error mapping that knows no subclass
MkApiErrorPlain(code) == "APIError"

MkApiError(code) ==
    IF code = InvalidApiKey THEN "InvalidAPIKeyError"
    ELSE IF code = CallLimitExceeded THEN "CallLimitExceededError"
    ELSE "APIError"

\* the HTTP statuses a server answers with
HttpStatuses == {200, 400, 499, 500, 599}

\* what the transport delivers: no connection, or a status and the code of the
\* error object in the body (0: a result)
Reply(transport, status, code) == [transport |-> transport, status |-> status, code |-> code]

\* Response.raise_for_status and the connection errors of the transport
HttpRaised(reply) ==
    IF reply.transport = "down" THEN Exc("ConnectionError", 0, "")
    ELSE IF reply.status >= 400 /\ reply.status < 600 THEN Exc("HTTPError", reply.status, "")
    ELSE NoExc

\* API.call: the exception it raises for a reply, NoExc when it returns the result
ApiRaised(reply) ==
    IF HttpRaised(reply) # NoExc THEN HttpRaised(reply)
    ELSE IF reply.code # 0 THEN Exc(MkApiError(reply.code), reply.code, "")
    ELSE NoExc

\* a variant of the API wrapper that lets every API error pass as non-fatal
ApiWrapLenient(e) ==
    IF IsA(e.cls, "RequestWouldBlock") \/ IsA(e.cls, "CallLimitExceededError") THEN Return0
    ELSE IF IsA(e.cls, "HTTPError") THEN NonFatal
    ELSE IF IsA(e.cls, "RequestException") THEN NonFatal
    ELSE e

\* a variant of the API wrapper that counts a call-limit error as a failure
ApiWrapLimitFails(e) ==
    IF IsA(e.cls, "RequestWouldBlock") THEN Return0
    ELSE IF IsA(e.cls, "CallLimitExceededError") THEN NonFatal
    ELSE IF IsA(e.cls, "HTTPError")
         THEN IF e.status \div 100 = 4 THEN e ELSE NonFatal
    ELSE IF IsA(e.cls, "RequestException") THEN NonFatal
    ELSE e

\* _API._step_wrap around an inner result e (an exception or Return0)
ApiWrap(e) ==
    IF IsA(e.cls, "RequestWouldBlock") THEN Return0
    ELSE IF IsA(e.cls, "CallLimitExceededError") THEN Return0
    ELSE IF IsA(e.cls, "HTTPError")
         THEN IF e.status \div 100 = 4 THEN e ELSE NonFatal
    ELSE IF IsA(e.cls, "RequestException") THEN NonFatal
    ELSE e

\* a variant of the pool wrapper that treats every operational error alike
PoolWrapAnyMessage(e) ==
    IF IsA(e.cls, "OperationalError") THEN NonFatal ELSE e

\* _Pool._step_wrap
PoolWrap(e) ==
    IF IsA(e.cls, "OperationalError")
    THEN IF e.msg = "database is locked" THEN NonFatal ELSE e
    ELSE e

\* _UserAccess._step_wrap
UserAccessWrap(e) ==
    IF IsA(e.cls, "RequestWouldBlock") THEN Return0
    ELSE IF IsA(e.cls, "HTTPError")
         THEN IF e.status \div 100 = 4 THEN e ELSE NonFatal
    ELSE IF IsA(e.cls, "RequestException") THEN NonFatal
    ELSE e

\* step(): the _step_wrap of the scraper classes in method resolution order,
\* MetadataScraper(_API, _Pool), SnatchlistScraper(_API, _Pool),
\* MetadataTipScraper(_API, _Pool, _UserAccess)
StepWrap(k, e) ==
    IF k = "tip" THEN ApiWrap(PoolWrap(UserAccessWrap(e)))
    ELSE ApiWrap(PoolWrap(e))

\* a daemon that was constructed and not started
\* no step so far
NoStep == [op |-> "none"]

\* a site without torrents
NoCatalog == [id \in TorrentIds |-> 0]

SnatchIds == 1..2

NoSnatch == [present |-> FALSE, uploaded |-> 0, hnr_removed |-> FALSE]

\* the scraper after its constructor
DaemonFields ==
    /\ kind \in Kinds
    /\ d_offset = 0
    /\ last = NoStep
    /\ snatchlist = [id \in SnatchIds |-> NoSnatch]
    /\ exc = NoExc
    /\ dpc = "loop"
    /\ terminated = FALSE
    /\ tpc = "idle"
    /\ fail_streak = 0
    /\ dwake = 0
    /\ changes = FALSE
    /\ start_time = 0
    /\ atTerm = "none"
    /\ lateCalls = 0

\* the scraper and the site limiter it was given
DaemonFresh == DaemonFields /\ SiteInit

\* no supervisor: the daemon is run on its own
NoSup == [pc |-> "off", i |-> 0, a_first |-> FALSE, a |-> "off", a_term |-> FALSE,
          raised |-> "none"]

RunInit == DaemonFresh /\ sup = NoSup

DmInit == RunInit /\ catalog = NoCatalog /\ period = SnatchPeriod

\* run(): _step_wrap returned wait_time w
Returned(w) ==
    /\ fail_streak' = 0
    /\ IF w > 0 THEN dpc' = "sleep" /\ dwake' = now + w
                ELSE dpc' = "loop" /\ dwake' = dwake

\* run(): _step_wrap raised NonFatal
Failed ==
    /\ fail_streak' = fail_streak + 1
    /\ dpc' = "sleep"
    /\ dwake' = now + Backoff(fail_streak + 1)

\* run(): _step_wrap raised anything else
Crashed ==
    /\ dpc' = "crashed"
    /\ UNCHANGED <<fail_streak, dwake>>

\* run() catches what step() makes of e as NonFatal
BacksOff(e) == IsA(StepWrap(kind, e).cls, "NonFatal")

\* run(): the rest of the iteration after _step_inner raised e
Raised(e) ==
    LET x == StepWrap(kind, e)
    IN /\ exc' = e
       /\ CASE x = Return0 -> Returned(0)
            [] IsA(x.cls, "NonFatal") -> Failed
            [] OTHER -> Crashed

\* a limiter gate was passed: counted once terminate() has returned
Passed == lateCalls' = IF tpc = "done" THEN lateCalls + 1 ELSE lateCalls

\* run(): the while test, and the entry into the step up to its first gate
RunLoop ==
    /\ dpc = "loop"
    /\ dpc' = IF terminated THEN "done"
              ELSE IF kind = "tip" /\ ~changes THEN "site_gate" ELSE "api_gate"
    /\ exc' = IF terminated THEN exc ELSE NoExc
    /\ UNCHANGED <<sup, kind, pageVars, terminated, tpc, fail_streak, dwake, changes, start_time, atTerm,
                   lateCalls>>
    /\ UNCHANGED <<siteVars, limVars, dbVars>>

\* a variant of the sleep that only its timeout ends
SleepOverTimeoutOnly == now >= dwake

\* the predicate and timeout of wait_for(self._terminated.is_set, wait_time)
SleepOver == terminated \/ now >= dwake

\* run(): the wait_for returns
SleepWake ==
    /\ dpc = "sleep"
    /\ SleepOver
    /\ dpc' = "loop"
    /\ dwake' = 0
    /\ UNCHANGED <<sup, kind, stepVars, terminated, tpc, fail_streak, changes, start_time, atTerm, lateCalls>>
    /\ UNCHANGED <<siteVars, limVars, dbVars>>

\* run(): the timeout of the wait_for runs out while nothing else happens
SleepElapses ==
    /\ dpc = "sleep"
    /\ now < dwake
    /\ dwake <= BackoffMaxTime
    /\ now' = dwake
    /\ sr' = NoSr
    /\ refusal' = Elapsed(refusal, dwake)
    /\ UNCHANGED <<calls, blocking, lpc, lwait, notified, lres, grants, recording, nsets, lcaught, lnow>>
    /\ UNCHANGED nonLimVars

\* get_feed: one RateLimiter._try_call of the site limiter
SiteTryCall ==
    /\ dpc = "site_gate"
    /\ SiteTry("main")
    /\ IF SiteCanCall(zero_time, now)
       THEN dpc' = "feed_http" /\ Passed
       ELSE dpc' = dpc /\ lateCalls' = lateCalls
    /\ UNCHANGED <<sup, kind, stepVars, terminated, tpc, fail_streak, dwake, changes, start_time, atTerm>>
    /\ UNCHANGED <<limVars, dbVars>>

\* RateLimiter._try_call, second locked region: WouldBlock ends the step with
\* wait time 0 (_UserAccess._step_wrap), or the thread parks in condition.wait
SiteWaitOrRaise ==
    /\ dpc = "site_gate"
    /\ SiteWaitRaise("main")
    /\ IF ~sblocking THEN Raised(Exc("RequestWouldBlock", 0, ""))
                     ELSE UNCHANGED <<dpc, fail_streak, dwake, exc>>
    /\ UNCHANGED <<sup, kind, pageVars, terminated, tpc, changes, start_time, atTerm, lateCalls>>
    /\ UNCHANGED <<limVars, dbVars>>

\* the site limiter's condition.wait(wait_time) returns
SiteWake ==
    /\ dpc = "site_gate"
    /\ SiteWoken("main")
    /\ UNCHANGED <<sup, kind, stepVars, dpc, terminated, tpc, fail_streak, dwake, changes, start_time, atTerm,
                   lateCalls>>
    /\ UNCHANGED <<limVars, dbVars>>

\* the replies of the site to the feed request
HttpOutcomes == {Reply("down", 0, 0)} \cup {Reply("ok", st, 0) : st \in HttpStatuses}

\* _check_changes after the gate: the feed response, and the comparison of
\* its ids with the cache
CheckChanges(outcome, differs) ==
    /\ dpc = "feed_http"
    /\ HttpRaised(outcome) # NoExc => ~differs
    /\ BacksOff(HttpRaised(outcome)) => fail_streak < MaxStreak
    /\ changes' = differs
    /\ CASE HttpRaised(outcome) # NoExc -> Raised(HttpRaised(outcome))
         [] HttpRaised(outcome) = NoExc /\ differs ->
                dpc' = "api_gate" /\ UNCHANGED <<fail_streak, dwake, exc>>
         [] OTHER -> Returned(TipWait) /\ exc' = NoExc
    /\ UNCHANGED <<sup, kind, pageVars, terminated, tpc, start_time, atTerm, lateCalls>>
    /\ UNCHANGED <<siteVars, limVars, dbVars>>

\* the API request's rate-limit adapter: one APIRateLimiter._try_call
ApiTryCall ==
    /\ dpc = "api_gate"
    /\ TryCall("main")
    /\ IF CanCall(calls, now)
       THEN dpc' = "api_http" /\ Passed
       ELSE dpc' = dpc /\ lateCalls' = lateCalls
    /\ UNCHANGED <<sup, kind, stepVars, terminated, tpc, fail_streak, dwake, changes, start_time, atTerm>>
    /\ UNCHANGED <<siteVars, dbVars>>

\* APIRateLimiter._try_call, second locked region: RequestWouldBlock ends the
\* step with wait time 0 (_API._step_wrap), or the thread parks
ApiWaitOrRaise ==
    /\ dpc = "api_gate"
    /\ WaitOrRaise("main")
    /\ IF ~blocking THEN Raised(Exc("RequestWouldBlock", 0, ""))
                    ELSE UNCHANGED <<dpc, fail_streak, dwake, exc>>
    /\ UNCHANGED <<sup, kind, pageVars, terminated, tpc, changes, start_time, atTerm, lateCalls>>
    /\ UNCHANGED <<siteVars, dbVars>>

\* the API limiter's condition.wait(wait_time) returns
ApiWake ==
    /\ dpc = "api_gate"
    /\ Wake("main")
    /\ UNCHANGED <<dmVars, dbVars>>

ErrorCodes == {InvalidApiKey, CallLimitExceeded, OtherErrorCode}

\* the replies of the API server
ApiOutcomes ==
    {Reply("down", 0, 0)} \cup {Reply("ok", st, 0) : st \in HttpStatuses}
        \cup {Reply("ok", 200, c) : c \in ErrorCodes}

\* RateLimitedAPI.call after the gate: the response of the API
ApiResponse(outcome) ==
    /\ dpc = "api_http"
    /\ BacksOff(ApiRaised(outcome)) => fail_streak < MaxStreak
    /\ LET e == ApiRaised(outcome)
       IN CASE e = NoExc -> dpc' = "db_write" /\ UNCHANGED <<fail_streak, dwake, exc, limVars>>
            [] IsA(e.cls, "CallLimitExceededError") -> SetRemaining(0) /\ Raised(e)
            [] OTHER -> Raised(e) /\ UNCHANGED limVars
    /\ UNCHANGED <<sup, kind, pageVars, terminated, tpc, changes, start_time, atTerm, lateCalls>>
    /\ UNCHANGED <<siteVars, dbVars>>

\* what the database operation of a step raises
DbRaised(outcome) ==
    CASE outcome = "locked" -> Exc("OperationalError", 0, "database is locked")
      [] outcome = "error" -> Exc("OperationalError", 0, "database table is locked")
      [] outcome = "integrity" -> Exc("IntegrityError", 0, "constraint failed")
      [] OTHER -> NoExc

DbOutcomes == {"ok", "locked", "error", "integrity"}

\* the rest of _step_inner: the update is applied to the database and the
\* step returns its wait time; more: the snatchlist has further pages
ApplyUpdate(outcome, more) ==
    /\ dpc = "db_write"
    /\ BacksOff(DbRaised(outcome)) => fail_streak < MaxStreak
    /\ more => kind = "snatchlist" /\ outcome = "ok"
    /\ outcome = "ok" => exc' = NoExc
    /\ CASE outcome # "ok" -> Raised(DbRaised(outcome)) /\ UNCHANGED <<changes, start_time>>
         [] outcome = "ok" /\ kind = "metadata" -> Returned(0) /\ UNCHANGED <<changes, start_time>>
         [] outcome = "ok" /\ kind = "tip" ->
                Returned(TipWait) /\ changes' = FALSE /\ start_time' = start_time
         [] outcome = "ok" /\ kind = "snatchlist" /\ more ->
                Returned(0) /\ UNCHANGED <<changes, start_time>>
         [] outcome = "ok" /\ kind = "snatchlist" /\ ~more ->
                Returned(period - (now - start_time)) /\ start_time' = now
                    /\ changes' = changes
    /\ UNCHANGED <<sup, kind, pageVars, terminated, tpc, atTerm, lateCalls>>
    /\ UNCHANGED <<siteVars, limVars, dbVars>>

\* where the daemon thread waits, if it does
Parked ==
    CASE dpc = "sleep" -> "sleep"
      [] dpc = "api_gate" /\ lpc["main"] = "waiting" -> "api_limiter"
      [] dpc = "site_gate" /\ spc["main"] = "waiting" -> "site_limiter"
      [] OTHER -> "running"

\* _Base.terminate
TerminateBase ==
    /\ tpc = "idle"
    /\ terminated' = TRUE
    /\ tpc' = IF kind = "tip" THEN "user_access" ELSE "api"
    /\ atTerm' = Parked
    /\ UNCHANGED <<sup, kind, stepVars, dpc, fail_streak, dwake, changes, start_time, lateCalls>>
    /\ UNCHANGED <<siteVars, limVars, dbVars>>

\* _UserAccess.terminate after super().terminate(): RateLimiter.set_blocking(False)
TerminateUserAccess ==
    /\ tpc = "user_access"
    /\ SiteSetBlocking(FALSE)
    /\ tpc' = "api"
    /\ UNCHANGED <<sup, kind, stepVars, dpc, terminated, fail_streak, dwake, changes, start_time, atTerm,
                   lateCalls>>
    /\ UNCHANGED <<limVars, dbVars>>

\* _API.terminate after super().terminate(): APIRateLimiter.set_blocking(False)
TerminateApi ==
    /\ tpc = "api"
    /\ SetBlocking(FALSE)
    /\ tpc' = "done"
    /\ UNCHANGED <<sup, kind, stepVars, dpc, terminated, fail_streak, dwake, changes, start_time, atTerm,
                   lateCalls>>
    /\ UNCHANGED <<siteVars, dbVars>>

\* ------------------------------------------------------ scraper steps, whole
\* the catalogs of the site
Catalogs == [TorrentIds -> {0} \cup Times]

Listed(cat) == {id \in TorrentIds : cat[id] # 0}

\* the ids of S in the order getTorrents lists them: newest first, by (time, id)
RECURSIVE Ordered(_, _)
Ordered(cat, S) ==
    IF S = {} THEN <<>>
    ELSE LET n == CHOOSE i \in S : \A j \in S : j = i \/ Before(cat[j], j, cat[i], i)
         IN  <<n>> \o Ordered(cat, S \ {n})

\* the ids of the n entries getTorrents returns at offset k
PageIds(cat, k, n) ==
    LET o == Ordered(cat, Listed(cat))
    IN  {o[i] : i \in {j \in (k + 1)..(k + n) : j >= 1 /\ j <= Len(o)}}

\* getTorrents(results=2 ** 31, offset=k): result["torrents"].values()
GetTorrents(cat, k, n) == SliceSeq([id \in PageIds(cat, k, n) |-> cat[id]])

\* the page lengths the site may answer with when total entries are listed:
\* at least one entry while entries remain beyond the offset
PageSizes(k, total) == IF k >= total THEN {0} ELSE 1..(total - k)

\* a variant of the offset update whose pages do not overlap
NextOffsetNoOverlap(k, n, total) == IF k + n >= total THEN 0 ELSE k + n

\* MetadataScraper._step_inner: the offset after a page of n entries
NextOffset(k, n, total) == IF k + n >= total THEN 0 ELSE k + n - 1

\* history of a sweep step: the request, the page, the pass it belongs to
SweepStepOf(k, n, total, ids, next, wait) ==
    [op |-> "sweep", k |-> k, n |-> n, total |-> total, page |-> ids, next |-> next,
     wait |-> wait,
     shared |-> IF last.op # "none" /\ last.prev # {}
                THEN Cardinality(last.prev \cap ids) ELSE -1,
     prev |-> IF k + n >= total THEN {} ELSE ids,
     clean |-> k + n < total /\ (last.op = "none" \/ last.clean),
     done |-> IF k + n < total THEN "no"
              ELSE IF last.op = "none" \/ last.clean THEN "clean" ELSE "unclean"]

\* MetadataScraper._step_inner, every call succeeding: the site answers with a
\* page of n entries
MetaStep(n) ==
    /\ kind = "metadata"
    /\ LET total == Cardinality(Listed(catalog))
           u == TorrentEntriesUpdate(GetTorrents(catalog, d_offset, n))
       IN  /\ n \in PageSizes(d_offset, total)
           /\ SweepApply(d_offset, u, total)
           /\ d_offset' = NextOffset(d_offset, n, total)
           /\ last' = SweepStepOf(d_offset, n, total, PageIds(catalog, d_offset, n),
                                  d_offset', 0)
    /\ UNCHANGED <<sup, kind, catalog, snatchlist, period, exc, dpc, terminated, tpc, fail_streak, dwake,
                   changes, start_time, atTerm, lateCalls>>
    /\ UNCHANGED <<siteVars, limVars>>

\* MetadataScraper._step_inner raises: the request failed, or the write
\* transaction was rolled back
MetaStepFails ==
    /\ kind = "metadata"
    /\ last' = IF last.op = "none"
               THEN [op |-> "failed", prev |-> {}, clean |-> FALSE, done |-> "no"]
               ELSE [op |-> "failed", prev |-> last.prev, clean |-> FALSE, done |-> "no"]
    /\ UNCHANGED <<sup, kind, catalog, d_offset, snatchlist, period, exc, dpc, terminated, tpc,
                   fail_streak, dwake, changes, start_time, atTerm, lateCalls>>
    /\ UNCHANGED <<siteVars, limVars, dbVars>>

\* the id lists a feed can hold, in feed order: each torrent is listed once
Feeds ==
    {f \in UNION {[1..n -> TorrentIds] : n \in 0..MaxFeed} :
        \A i, j \in DOMAIN f : i # j => f[i] # f[j]}

\* select id from torrent_entry where not deleted order by time desc, id desc
\* limit n
DbIds(table, n) ==
    LET live == {id \in TorrentIds : table[id].present /\ ~table[id].deleted}
        o == Ordered([id \in TorrentIds |-> table[id].time], live)
    IN  SubSeq(o, 1, Min2(n, Len(o)))

\* a variant of the comparison that always reports changes
FeedDiffersAlways(feed, ids) == TRUE

\* _check_changes: feed_ids != db_ids
FeedDiffers(feed, ids) == feed # ids

\* a variant of the flag update that clears the flag whatever happened
PendingAfterCleared(pending, applied) == FALSE

\* MetadataTipScraper._step_inner: _changes when the step ends, given its value
\* after _check_changes and whether the page was fetched and applied
PendingAfter(pending, applied) == pending /\ ~applied

TipOutcomes == {"ok", "feed_fails", "api_fails", "db_fails"}

\* MetadataTipScraper._step_inner; outcome names the call that raises, if the
\* step gets to it; feed is the feed's id list and n the length of page 0
TipStep(outcome, feed, n) ==
    /\ kind = "tip"
    /\ LET pending == changes
           fed == ~pending /\ outcome # "feed_fails"
           ids == DbIds(entries, Len(feed))
           differs == fed /\ FeedDiffers(feed, ids)
           index_error == fed /\ ~differs /\ feed = <<>>
           checked == pending \/ differs
           got == checked /\ outcome # "api_fails"
           applied == got /\ outcome # "db_fails"
           total == Cardinality(Listed(catalog))
           u == TorrentEntriesUpdate(GetTorrents(catalog, 0, n))
       IN  /\ outcome = "feed_fails" => ~pending
           /\ outcome \in {"api_fails", "db_fails"} => checked
           /\ ~fed => feed = <<>>
           /\ n \in (IF applied THEN PageSizes(0, total) ELSE {0})
           /\ IF applied THEN SweepApply(0, u, total) ELSE UNCHANGED dbVars
           /\ changes' = PendingAfter(checked, applied)
           /\ last' = [op |-> "tip", pending |-> pending, asked |-> ~pending, fed |-> fed,
                       feed |-> feed, db_ids |-> ids, called |-> checked,
                       k |-> 0, applied |-> applied,
                       page |-> IF applied THEN PageIds(catalog, 0, n) ELSE {},
                       raised |-> outcome # "ok" \/ index_error,
                       wait |-> IF outcome # "ok" \/ index_error THEN -1 ELSE TipWait]
    /\ UNCHANGED <<sup, kind, catalog, d_offset, snatchlist, period, exc, dpc, terminated, tpc,
                   fail_streak, dwake, start_time, atTerm, lateCalls>>
    /\ UNCHANGED <<siteVars, limVars>>

\* ---------------------------------------------------- snatchlist scraper
\* SnatchlistScraper._BLOCK_SIZE
BlockSize == 10000

\* the values a scraped column of a snatch record takes
Uploads == {1, 2}

\* result["torrents"] of getUserSnatchlist: the records of one page
SnatchPages == UNION {[1..n -> [id : SnatchIds, uploaded : Uploads]] : n \in 0..MaxFeed}

\* a variant of the upsert that replaces the whole row
SnatchUpsertedReplace(row, e) ==
    [present |-> TRUE, uploaded |-> e.uploaded, hnr_removed |-> FALSE]

\* insert into snatchlist (scraped columns) values (...) on conflict (id) do
\* update set the scraped columns; hnr_removed is "not null default 0"
SnatchUpserted(row, e) ==
    [present |-> TRUE, uploaded |-> e.uploaded,
     hnr_removed |-> IF row.present THEN row.hnr_removed ELSE FALSE]

\* SnatchEntriesUpdate.apply: executemany over the rows, in order
RECURSIVE SnatchEntriesUpdate(_, _)
SnatchEntriesUpdate(table, rows) ==
    IF rows = <<>> THEN table
    ELSE LET e == Head(rows)
         IN SnatchEntriesUpdate([table EXCEPT ![e.id] = SnatchUpserted(table[e.id], e)],
                                Tail(rows))

\* the last incoming record of an id
LastOf(rows, id) ==
    LET I == {i \in 1..Len(rows) : rows[i].id = id}
    IN rows[CHOOSE i \in I : \A j \in I : j <= i]

IncomingIds(rows) == {rows[i].id : i \in 1..Len(rows)}

\* a field of the last snatchlist step, or d when there was none
SnatchPrev(f, d) == IF last.op = "snatch" THEN last[f] ELSE d

\* SnatchlistScraper._step_inner at offset d_offset, answered with the page
\* rows and the total count, followed by the rest of the iteration of run()
SnatchStep(rows, total) ==
    /\ kind = "snatchlist"
    /\ dpc = "loop"
    /\ ~terminated
    /\ LET k == d_offset
           n == Len(rows)
           more == k + n < total
           w == IF more THEN 0 ELSE period - (now - start_time)
           after == SnatchEntriesUpdate(snatchlist, rows)
           fresh == SnatchPrev("fresh", TRUE)
           pstart == IF fresh THEN now ELSE last.pstart
           passes == SnatchPrev("passes", 0)
       IN /\ snatchlist' = after
          /\ d_offset' = IF more THEN k + n ELSE 0
          /\ start_time' = IF more THEN start_time ELSE now
          /\ Returned(w)
          /\ exc' = NoExc
          /\ last' = [op |-> "snatch", results |-> BlockSize, k |-> k, n |-> n, total |-> total,
                      wait |-> w, started |-> start_time, at |-> now,
                      fresh |-> ~more,
                      pstart |-> pstart,
                      gap |-> IF fresh /\ last.op = "snatch" THEN now - last.pstart
                              ELSE SnatchPrev("gap", -1),
                      short |-> SnatchPrev("short", TRUE) /\ (more \/ now - pstart < period),
                      passes |-> IF more THEN passes ELSE Min2(passes + 1, 3),
                      hnr_kept |-> \A id \in SnatchIds : snatchlist[id].present =>
                                       after[id].hnr_removed = snatchlist[id].hnr_removed,
                      hnr_new |-> \A id \in SnatchIds : ~snatchlist[id].present /\ after[id].present
                                       => ~after[id].hnr_removed,
                      scraped |-> \A id \in IncomingIds(rows) :
                                       /\ after[id].present
                                       /\ after[id].uploaded = LastOf(rows, id).uploaded,
                      others |-> \A id \in SnatchIds \ IncomingIds(rows) : after[id] = snatchlist[id],
                      flagged |-> \E id \in IncomingIds(rows) :
                                       /\ snatchlist[id].present
                                       /\ snatchlist[id].hnr_removed
                                       /\ snatchlist[id].uploaded # LastOf(rows, id).uploaded,
                      inserted |-> \E id \in IncomingIds(rows) : ~snatchlist[id].present]
    /\ UNCHANGED <<sup, kind, catalog, period, terminated, tpc, changes, atTerm, lateCalls>>
    /\ UNCHANGED <<siteVars, limVars, dbVars>>

\* the API request of the step fails with a connection error
SnatchStepFails ==
    /\ kind = "snatchlist"
    /\ dpc = "loop"
    /\ ~terminated
    /\ fail_streak < MaxStreak
    /\ Raised(Exc("ConnectionError", 0, ""))
    /\ UNCHANGED <<sup, kind, pageVars, terminated, tpc, changes, start_time, atTerm, lateCalls>>
    /\ UNCHANGED <<siteVars, limVars, dbVars>>

\* the owner of the database sets or clears the flag of a record
SetHnrRemoved(id, v) ==
    /\ snatchlist[id].present
    /\ snatchlist[id].hnr_removed # v
    /\ snatchlist' = [snatchlist EXCEPT ![id].hnr_removed = v]
    /\ UNCHANGED <<sup, kind, catalog, d_offset, last, period, exc, dpc, terminated, tpc, fail_streak, dwake,
                   changes, start_time, atTerm, lateCalls>>
    /\ UNCHANGED <<siteVars, limVars, dbVars>>

\* ---------------------------------------------------------- specifications
\* acquire() calls one after another, no set_remaining
WindowNext ==
    \/ (\E t \in Sequential : TryCall(t)) /\ UNCHANGED nonLimVars
    \/ (\E t \in Sequential : WaitOrRaise(t)) /\ UNCHANGED nonLimVars
    \/ (\E t \in Sequential : Wake(t)) /\ UNCHANGED nonLimVars
    \/ (\E b \in BOOLEAN : SetBlocking(b)) /\ UNCHANGED nonLimVars
    \/ Tick /\ UNCHANGED nonLimVars

WindowInit == LimInit /\ recording = TRUE /\ DbInit /\ DmInit /\ kind = "metadata"

SpecWindow == WindowInit /\ [][WindowNext]_vars

\* the same, with set_remaining calls in between
RemainingNext ==
    \/ (\E t \in Sequential : TryCall(t)) /\ UNCHANGED nonLimVars
    \/ (\E t \in Sequential : WaitOrRaise(t)) /\ UNCHANGED nonLimVars
    \/ (\E t \in Sequential : Wake(t)) /\ UNCHANGED nonLimVars
    \/ (\E k \in 0..MaxCalls : SetRemaining(k)) /\ UNCHANGED nonLimVars
    \/ Tick /\ UNCHANGED nonLimVars

RemainingInit == LimInit /\ recording = FALSE /\ DbInit /\ DmInit /\ kind = "metadata"

SpecRemaining == RemainingInit /\ [][RemainingNext]_vars

\* one sweep slice applied to a cache left by earlier sweeps
SweepNext ==
    /\ obs.op = "none"
    /\ \E u \in SweepUpdates, offset \in Offsets : \E total \in Totals(u) :
            SweepApply(offset, u, total)
    /\ UNCHANGED <<limVars, dmVars>>

SweepInit ==
    LimInit /\ blocking = TRUE /\ recording = FALSE /\ DbCached /\ DmInit /\ kind = "metadata"

SpecSweep == SweepInit /\ [][SweepNext]_vars

\* ---- the same update applied twice ----

TwiceFrame ==
    UNCHANGED <<sup, kind, catalog, d_offset, snatchlist, period, exc, dpc, terminated, tpc,
                fail_streak, dwake, changes, start_time, atTerm, lateCalls, siteVars, limVars>>

\* UnfilteredGetTorrentsResultUpdate(offset, result).apply(conn), first time
SweepOnce(offset, u, total) ==
    /\ last.op = "none"
    /\ SweepApply(offset, u, total)
    /\ last' = [op |-> "applied", times |-> 1, offset |-> offset, u |-> u, total |-> total,
                before |-> [series |-> series, groups |-> groups, entries |-> entries],
                once |-> [series |-> series', groups |-> groups', entries |-> entries']]
    /\ TwiceFrame

\* apply(conn) of the same update object on the cache the first call left
SweepAgain ==
    /\ last.op = "applied"
    /\ last.times = 1
    /\ SweepApply(last.offset, last.u, last.total)
    /\ last' = [last EXCEPT !.times = 2]
    /\ TwiceFrame

\* totals that make the slice final at offset 0, final at offset 1, or not final
TwiceTotals(u) == {Cardinality(DOMAIN u.te_rows), Cardinality(DOMAIN u.te_rows) + 1}

TwiceNext ==
    \/ \E u \in SweepUpdates, offset \in Offsets : \E total \in TwiceTotals(u) :
            SweepOnce(offset, u, total)
    \/ SweepAgain

SpecTwice == SweepInit /\ [][TwiceNext]_vars

\* any sequence of entity upserts and sweeps applied to a fresh database
UpsertNext ==
    \/ /\ \E u \in UpsertUpdates : EntityUpsert(u)
       /\ UNCHANGED <<limVars, dmVars>>
    \/ /\ \E u \in UpsertUpdates, offset \in Offsets : \E total \in Totals(u) :
            SweepApply(offset, u, total)
       /\ UNCHANGED <<limVars, dmVars>>

UpsertInit ==
    LimInit /\ blocking = TRUE /\ recording = FALSE /\ DbInit /\ DmInit /\ kind = "metadata"

SpecUpsert == UpsertInit /\ [][UpsertNext]_vars

\* the steps of the daemon thread
DaemonStep ==
    \/ RunLoop
    \/ SleepWake
    \/ SiteTryCall
    \/ SiteWaitOrRaise
    \/ SiteWake
    \/ \E outcome \in HttpOutcomes, differs \in BOOLEAN : CheckChanges(outcome, differs)
    \/ ApiTryCall
    \/ ApiWaitOrRaise
    \/ ApiWake
    \/ \E outcome \in ApiOutcomes : ApiResponse(outcome)
    \/ \E outcome \in DbOutcomes, more \in BOOLEAN : ApplyUpdate(outcome, more)

\* the steps of a terminate() call once it has begun
TerminateRest == TerminateUserAccess \/ TerminateApi

DaemonNext ==
    \/ DaemonStep
    \/ TerminateBase
    \/ TerminateRest
    \/ now < DaemonMaxTime /\ dpc \notin {"done", "crashed"} /\ Tick /\ UNCHANGED nonLimVars

DaemonInit == LimInit /\ blocking = TRUE /\ recording = FALSE /\ DbInit /\ DmInit

\* a daemon run()ning while another thread may call terminate()
SpecDaemon == DaemonInit /\ [][DaemonNext]_vars

\* the same, with threads that keep being scheduled: the daemon thread takes
\* its next step when it has one, and a terminate() call that began completes
SpecDaemonFair == SpecDaemon /\ WF_vars(DaemonStep) /\ WF_vars(TerminateRest)

\* the daemon as the caller of RateLimitedAPI.call, its limiter constructed
\* blocking or non-blocking
ClientInit == LimInit /\ recording = FALSE /\ DbInit /\ DmInit

SpecClient == ClientInit /\ [][DaemonNext]_vars

\* a step of thread t, the run() thread of a daemon of the given kind, inside
\* the acquire() of the first limiter its step calls: the site limiter for a tip
\* scraper, the API limiter for the others
AcquireStep(t) ==
    \/ kind # "tip" /\ TryCall(t) /\ UNCHANGED nonLimVars
    \/ kind # "tip" /\ WaitOrRaise(t) /\ UNCHANGED nonLimVars
    \/ kind # "tip" /\ Wake(t) /\ UNCHANGED nonLimVars
    \/ kind = "tip" /\ SiteTry(t) /\ UNCHANGED <<limVars, dbVars, runVars>>
    \/ kind = "tip" /\ SiteWaitRaise(t) /\ UNCHANGED <<limVars, dbVars, runVars>>
    \/ kind = "tip" /\ SiteWoken(t) /\ UNCHANGED <<limVars, dbVars, runVars>>

\* two daemons of one kind share a limiter while set_blocking is called on it
BroadcastNext ==
    \/ \E t \in Threads : AcquireStep(t)
    \/ kind # "tip" /\ (\E b \in BOOLEAN : SetBlocking(b)) /\ UNCHANGED nonLimVars
    \/ kind = "tip" /\ (\E b \in BOOLEAN : SiteSetBlocking(b))
            /\ UNCHANGED <<limVars, dbVars, runVars>>
    \/ now < Period /\ Tick /\ UNCHANGED nonLimVars

\* the API limiter has let max_calls calls pass at time 0, so that the next
\* call is refused
BroadcastInit ==
    /\ now = 0
    /\ calls = [i \in 1..MaxCalls |-> 0]
    /\ blocking = TRUE
    /\ lpc = [t \in Threads |-> "idle"]
    /\ lwait = [t \in Threads |-> 0]
    /\ notified = [t \in Threads |-> FALSE]
    /\ lres = [t \in Threads |-> "none"]
    /\ grants = <<>>
    /\ recording = FALSE
    /\ nsets = 0
    /\ sr = NoSr
    /\ lcaught = [t \in Threads |-> "no"]
    /\ refusal = [t \in Threads |-> NoRefusal]
    /\ lnow = [t \in Threads |-> NoClock]
    /\ DbInit
    /\ DmInit
    /\ kind \in {"metadata", "tip"}

SpecBroadcast == BroadcastInit /\ [][BroadcastNext]_vars

\* the full-sweep scraper stepping over an unchanging catalog
FullSweepNext ==
    \/ \E n \in 0..NumIds : MetaStep(n)
    \/ MetaStepFails

\* a new scraper with a fresh database
PagesInit ==
    /\ LimInit /\ blocking = TRUE /\ recording = FALSE
    /\ DbInit
    /\ RunInit /\ kind = "metadata"
    /\ catalog \in Catalogs
    /\ period = SnatchPeriod

SpecPages == PagesInit /\ [][FullSweepNext]_vars

\* the rows a torrent entry can hold when a pass begins: none, a live row of
\* any time, or a row marked deleted
PassEntries ==
    {NoEntry} \cup [present : {TRUE}, group_id : {1}, time : Times, deleted : {FALSE}]
        \cup [present : {TRUE}, group_id : {1}, time : {1}, deleted : {TRUE}]

\* a new scraper with a database left by earlier runs
FullSweepInit ==
    /\ LimInit /\ blocking = TRUE /\ recording = FALSE
    /\ DbCached /\ entries \in [TorrentIds -> PassEntries]
    /\ RunInit /\ kind = "metadata"
    /\ catalog \in Catalogs
    /\ period = SnatchPeriod

SpecFullSweep == FullSweepInit /\ [][FullSweepNext]_vars

\* the tip scraper stepping with a fresh database, any feed and any catalog
TipNext == \E outcome \in TipOutcomes, feed \in Feeds, n \in 0..NumIds : TipStep(outcome, feed, n)

TipInit ==
    /\ LimInit /\ blocking = TRUE /\ recording = FALSE
    /\ DbInit
    /\ RunInit /\ kind = "tip"
    /\ catalog \in Catalogs
    /\ period = SnatchPeriod

SpecTip == TipInit /\ [][TipNext]_vars

\* the tip scraper started on a cache of any content
TipCachedInit ==
    /\ LimInit /\ blocking = TRUE /\ recording = FALSE
    /\ DbCached /\ entries \in [TorrentIds -> PassEntries]
    /\ RunInit /\ kind = "tip"
    /\ catalog \in Catalogs
    /\ period = SnatchPeriod

\* the ids of the n newest catalog entries in getTorrents order
Newest(cat, n) == SubSeq(Ordered(cat, Listed(cat)), 1, n)

\* steps whose feed, when one is fetched, lists the newest catalog entries
TipCachedNext ==
    \E outcome \in TipOutcomes, len \in 0..MaxFeed, n \in 0..NumIds :
        /\ len <= Cardinality(Listed(catalog))
        /\ TipStep(outcome, Newest(catalog, len), n)

SpecTipCached == TipCachedInit /\ [][TipCachedNext]_vars

\* pages whose records all are the same record: the timing of the passes does
\* not depend on what the records hold
PlainPages == {rows \in SnatchPages : \A i \in 1..Len(rows) : rows[i] = [id |-> 1, uploaded |-> 1]}

\* the snatchlist scraper run by run(): steps, sleeps and the clock
SnatchNext ==
    \/ \E rows \in PlainPages, total \in 0..MaxTotal : SnatchStep(rows, total)
    \/ SnatchStepFails
    \/ SleepWake
    \/ now < SnatchMaxTime /\ Tick /\ UNCHANGED nonLimVars

SnatchInit ==
    /\ LimInit /\ blocking = TRUE /\ recording = FALSE
    /\ DbInit
    /\ RunInit /\ kind = "snatchlist"
    /\ catalog = NoCatalog
    /\ period \in 2..MaxPeriod

SpecSnatch == SnatchInit /\ [][SnatchNext]_vars

\* the snatchlist table under one-page passes of any records and an owner
\* who sets and clears the flag
SnatchDbNext ==
    \/ \E rows \in SnatchPages : SnatchStep(rows, 0)
    \/ SleepWake
    \/ \E id \in SnatchIds, v \in BOOLEAN : SetHnrRemoved(id, v)
    \/ now < MaxPeriod /\ Tick /\ UNCHANGED nonLimVars

SpecSnatchDb == SnatchInit /\ [][SnatchDbNext]_vars

\* run() around whole steps of the snatchlist scraper, failing steps,
\* terminate() and sleeps that run out; the site answers during the first
\* SnatchMaxTime seconds and every later step fails
BackoffNext ==
    \/ now <= SnatchMaxTime /\ \E rows \in PlainPages, total \in 0..MaxTotal : SnatchStep(rows, total)
    \/ SnatchStepFails
    \/ SleepWake
    \/ SleepElapses
    \/ terminated /\ RunLoop
    \/ TerminateBase
    \/ TerminateApi

BackoffInit ==
    /\ LimInit /\ blocking = TRUE /\ recording = FALSE
    /\ DbInit
    /\ RunInit /\ kind = "snatchlist"
    /\ catalog = NoCatalog
    /\ period \in {MaxPeriod, SnatchPeriod}

SpecBackoff == BackoffInit /\ [][BackoffNext]_vars

\* ---- steps that end with an exception ----

\* the exceptions getTorrents / getUserSnatchlist can end with: those of
\* API.call, and RequestWouldBlock of the rate limiters
ApiFailures ==
    ({ApiRaised(r) : r \in ApiOutcomes} \ {NoExc}) \cup {Exc("RequestWouldBlock", 0, "")}

\* the exceptions the write transaction can end with
DbFailures == {DbRaised(o) : o \in DbOutcomes \ {"ok"}}

RaisedAt(at) == IF at = "api" THEN ApiFailures ELSE DbFailures

\* a variant of _step_inner that moves the scraper's fields before the write
\* transaction
KeptOnRaiseEager(at, before, after) == IF at = "api" THEN before ELSE after

\* _step_inner assigns _offset (and _start_time) after the with-block of the
\* write transaction: a step that raised in the request ("api") or in the
\* transaction ("db") did not reach the assignment
KeptOnRaise(at, before, after) == IF at = "none" THEN after ELSE before

RaisedStepOf(at, k, started) ==
    [op |-> "raised", at |-> at, k |-> k, started |-> started,
     prev |-> {}, clean |-> FALSE, done |-> "no"]

\* MetadataScraper._step_inner ending with an exception, under _step_wrap and
\* run(); the transaction of a raising apply is rolled back
MetaStepRaises(n, at, e) ==
    /\ kind = "metadata"
    /\ dpc = "loop"
    /\ ~terminated
    /\ fail_streak < MaxStreak
    /\ LET total == Cardinality(Listed(catalog))
       IN  /\ n \in PageSizes(d_offset, total)
           /\ d_offset' = KeptOnRaise(at, d_offset, NextOffset(d_offset, n, total))
    /\ last' = RaisedStepOf(at, d_offset, start_time)
    /\ Raised(e)
    /\ UNCHANGED <<sup, kind, catalog, snatchlist, period, terminated, tpc, changes, start_time,
                   atTerm, lateCalls>>
    /\ UNCHANGED <<siteVars, limVars, dbVars>>

\* SnatchlistScraper._step_inner ending with an exception
SnatchStepRaises(rows, total, at, e) ==
    /\ kind = "snatchlist"
    /\ dpc = "loop"
    /\ ~terminated
    /\ fail_streak < MaxStreak
    /\ LET more == d_offset + Len(rows) < total
       IN  /\ d_offset' = KeptOnRaise(at, d_offset, IF more THEN d_offset + Len(rows) ELSE 0)
           /\ start_time' = KeptOnRaise(at, start_time, IF more THEN start_time ELSE now)
    /\ last' = RaisedStepOf(at, d_offset, start_time)
    /\ Raised(e)
    /\ UNCHANGED <<sup, kind, catalog, snatchlist, period, terminated, tpc, changes, atTerm, lateCalls>>
    /\ UNCHANGED <<siteVars, limVars, dbVars>>

\* run() of either scraper around whole steps that succeed or raise
RaisesNext ==
    \/ \E n \in 0..NumIds : dpc = "loop" /\ ~terminated /\ MetaStep(n)
    \/ \E n \in 0..NumIds, at \in {"api", "db"} : \E e \in RaisedAt(at) : MetaStepRaises(n, at, e)
    \/ \E rows \in PlainPages, total \in 0..MaxTotal : SnatchStep(rows, total)
    \/ \E rows \in PlainPages, total \in 0..MaxTotal, at \in {"api", "db"} :
            \E e \in RaisedAt(at) : SnatchStepRaises(rows, total, at, e)
    \/ SleepWake
    \/ now < RaisesMaxTime /\ Tick /\ UNCHANGED nonLimVars

RaisesInit ==
    /\ LimInit /\ blocking = TRUE /\ recording = FALSE
    /\ DbInit
    /\ RunInit
    /\ \/ kind = "metadata" /\ catalog \in Catalogs /\ period = SnatchPeriod
       \/ kind = "snatchlist" /\ catalog = NoCatalog /\ period \in 2..MaxPeriod

SpecRaises == RaisesInit /\ [][RaisesNext]_vars

\* terminate() of another daemon that was built on the same RateLimitedAPI:
\* its _API.terminate makes the shared limiter non-blocking
OtherTerminates ==
    /\ blocking
    /\ SetBlocking(FALSE)
    /\ UNCHANGED nonLimVars

\* a daemon whose API limiter is shared with other daemons
SharedNext == DaemonNext \/ OtherTerminates

SpecShared == DaemonInit /\ [][SharedNext]_vars

\* ------------------------------------------- series: external identifiers
\* the strings the API sends for ImdbID, TvdbID, TvrageID and YoutubeTrailer
ImdbStrings == {"", "0", "0944947"}

TvdbStrings == {"", "0", "00", "456"}

TvrageStrings == {"", "0", "7"}

TrailerStrings == {"", "0", "http://y"}

ExtEntries ==
    [ImdbID : ImdbStrings, TvdbID : TvdbStrings, TvrageID : TvrageStrings,
     YoutubeTrailer : TrailerStrings]

\* int(s)
IntOf(s) ==
    CASE s \in {"0", "00"} -> 0
      [] s = "456" -> 456
      [] s = "7" -> 7
      [] s = "0944947" -> 944947

\* a column value: NULL, or a text, or an integer
Null == [null |-> TRUE, text |-> "", int |-> 0]

Text(s) == [null |-> FALSE, text |-> s, int |-> 0]

Number(n) == [null |-> FALSE, text |-> "", int |-> n]

\* s or None
TextOrNone(s) == IF s = "" THEN Null ELSE Text(s)

\* (int(s) if s else None) or None
IntOrNone(s) == IF s = "" THEN Null ELSE IF IntOf(s) = 0 THEN Null ELSE Number(IntOf(s))

\* _te_json_to_rows: the columns imdb_id, tvdb_id, tvrage_id and
\* youtube_trailer of the series row
SeriesExtRow(e) ==
    [imdb_id |-> TextOrNone(e.ImdbID),
     tvdb_id |-> IntOrNone(e.TvdbID),
     tvrage_id |-> IntOrNone(e.TvrageID),
     youtube_trailer |-> IF TextOrNone(e.YoutubeTrailer) = Text("0") THEN Null
                         ELSE TextOrNone(e.YoutubeTrailer)]

\* TorrentEntriesUpdate(e).apply(conn) on a database without the series: the
\* four columns of the row that _update_series inserts
ExtApply(e) ==
    /\ obs' = [op |-> "ext", entry |-> e,
               stored |-> UpdateSeries([id \in {1} |-> Null], [id \in {1} |-> SeriesExtRow(e)])[1]]
    /\ UNCHANGED <<series, groups, entries, file_info>>

ExtNext == \E e \in ExtEntries : ExtApply(e) /\ UNCHANGED <<limVars, dmVars>>

ExtInit == LimInit /\ blocking = TRUE /\ recording = FALSE /\ DbInit /\ DmInit /\ kind = "metadata"

SpecExt == ExtInit /\ [][ExtNext]_vars

\* ------------------------------------------------- file_info specification
InfoNext ==
    \E id \in InfoIds, info \in InfoDicts : InfoApply(id, info) /\ UNCHANGED <<limVars, dmVars>>

InfoInit == LimInit /\ blocking = TRUE /\ recording = FALSE /\ DbInit /\ DmInit /\ kind = "metadata"

SpecInfo == InfoInit /\ [][InfoNext]_vars

\* ------------------------------------------------------------------ API.call
\* what the session hands back to API.call: the transport fails, or a reply
\* with a status and a JSON body that holds an error object with a code, or a
\* result
CallStatuses == {200, 201, 299, 300, 304, 399, 400, 404, 499, 500, 503, 599}

CallCodes == {InvalidApiKey, CallLimitExceeded, OtherErrorCode, 0 - 32003, 0, 1}

CallResults == 1..MaxResult

CallReplies ==
    [transport : {"ok"}, status : CallStatuses, has_error : {TRUE}, code : CallCodes,
     result : {0}]
        \cup [transport : {"ok"}, status : CallStatuses, has_error : {FALSE}, code : {0},
              result : CallResults]
        \cup [transport : {"down"}, status : {0}, has_error : {FALSE}, code : {0},
              result : {0}]

\* API.call: session.post, raise_for_status (HTTPError for a 4xx or 5xx
\* status), then the error object, then the result
Call(reply) ==
    IF reply.transport = "down"
    THEN [raised |-> Exc("ConnectionError", 0, ""), returned |-> FALSE, value |-> 0]
    ELSE IF reply.status >= 400 /\ reply.status < 600
    THEN [raised |-> Exc("HTTPError", reply.status, ""), returned |-> FALSE, value |-> 0]
    ELSE IF reply.has_error
    THEN [raised |-> Exc(MkApiError(reply.code), reply.code, ""), returned |-> FALSE,
          value |-> 0]
    ELSE [raised |-> NoExc, returned |-> TRUE, value |-> reply.result]

\* one API.call; last keeps the reply and what call did with it
ApiCall(reply) ==
    /\ last' = [op |-> "call", reply |-> reply, raised |-> Call(reply).raised,
                returned |-> Call(reply).returned, value |-> Call(reply).value]
    /\ UNCHANGED <<catalog, d_offset, snatchlist, period, exc>>
    /\ UNCHANGED <<sup, kind, dpc, terminated, tpc, fail_streak, dwake, changes, start_time,
                   atTerm, lateCalls>>
    /\ UNCHANGED <<limVars, dbVars, siteVars>>

ApiCallNext == \E reply \in CallReplies : ApiCall(reply)

ApiCallInit == LimInit /\ blocking = TRUE /\ recording = FALSE /\ DbInit /\ DmInit /\ kind = "metadata"

SpecApiCall == ApiCallInit /\ [][ApiCallNext]_vars

\* ------------------------------------------------------- concurrent acquire
\* the daemons' threads call acquire() on the one APIRateLimiter that
\* btn_scrape.main hands to them; a thread may be overtaken between reading the
\* clock and taking the lock
RaceNext ==
    \/ (\E t \in Threads : ReadClock(t)) /\ UNCHANGED nonLimVars
    \/ (\E t \in Threads : LockedTryCall(t)) /\ UNCHANGED nonLimVars
    \/ (\E t \in Threads : WaitOrRaise(t)) /\ UNCHANGED nonLimVars
    \/ (\E t \in Threads : Wake(t)) /\ UNCHANGED nonLimVars
    \/ (\E b \in BOOLEAN : SetBlocking(b)) /\ UNCHANGED nonLimVars
    \/ now < RaceMaxTime /\ Tick /\ UNCHANGED nonLimVars

RaceInit ==
    LimInit /\ blocking = TRUE /\ recording = TRUE /\ DbInit /\ DmInit /\ kind = "metadata"

SpecRace == RaceInit /\ [][RaceNext]_vars

\* ------------------------------------------------------------ leaky bucket
\* one thread acquires from a fresh RateLimiter of any burst up to MaxBurst /
\* SiteInterval tokens, blocking or not, while the clock advances
Bursts == 1..MaxBurst

BucketNext ==
    \/ (\E t \in Sequential : SiteTry(t)) /\ UNCHANGED <<limVars, dbVars, runVars>>
    \/ (\E t \in Sequential : SiteWaitRaise(t)) /\ UNCHANGED <<limVars, dbVars, runVars>>
    \/ (\E t \in Sequential : SiteWoken(t)) /\ UNCHANGED <<limVars, dbVars, runVars>>
    \/ (\E b \in BOOLEAN : SiteSetBlocking(b)) /\ UNCHANGED <<limVars, dbVars, runVars>>
    \/ Tick /\ UNCHANGED nonLimVars

BucketInit ==
    /\ LimInit /\ blocking = TRUE /\ recording = TRUE
    /\ DbInit
    /\ DaemonFields /\ kind = "metadata" /\ sup = NoSup
    /\ catalog = NoCatalog /\ period = SnatchPeriod
    /\ \E b \in Bursts, blk \in BOOLEAN : RateLimiterInit(b, blk)

SpecBucket == BucketInit /\ [][BucketNext]_vars

\* ------------------------------------------------------ _RateLimitAdapter
\* the gate is any callable: it returns, raises WouldBlock with some
\* wait_time, or raises something else
GateOutcomes ==
    {Ended("return", NoWait)}
        \cup {Ended("WouldBlock", w) : w \in {NoWait} \cup 0..MaxWait}
        \cup {Ended(cls, NoWait) : cls \in {"Error", "ValueError"}}

\* the upstream adapter returns a response or raises
UpstreamOutcomes == {Ended("return", NoWait), Ended("ConnectionError", NoWait)}

\* an except clause that catches every ratelimit.Error
SendRaisedBroad(g) ==
    IF IsA(g.cls, "Error") THEN Ended("RequestWouldBlock", g.wait) ELSE g

\* send: except WouldBlock as exc: raise RequestWouldBlock(exc.wait_time)
SendRaised(g) ==
    IF IsA(g.cls, "WouldBlock") THEN Ended("RequestWouldBlock", g.wait) ELSE g

\* the session hands a request to the adapter: send is entered
Send ==
    /\ adapter.pc = "idle"
    /\ adapter.reqs < MaxRequests
    /\ adapter' = [adapter EXCEPT !.pc = "gate", !.reqs = @ + 1,
                                  !.gate = Ended("none", NoWait),
                                  !.raised = Ended("none", NoWait), !.sent = FALSE]
    /\ UNCHANGED bucketVars

\* send: self._rate_limiter() ends with g
SendGate(g) ==
    /\ adapter.pc = "gate"
    /\ adapter' = [adapter EXCEPT !.pc = IF g.cls = "return" THEN "upstream" ELSE "idle",
                                  !.gates = @ + 1,
                                  !.gate = g,
                                  !.raised = IF g.cls = "return" THEN @ ELSE SendRaised(g)]
    /\ UNCHANGED bucketVars

\* send: return self._upstream.send(...), which ends with u
SendUpstream(u) ==
    /\ adapter.pc = "upstream"
    /\ adapter' = [adapter EXCEPT !.pc = "idle", !.sends = @ + 1, !.sent = TRUE,
                                  !.raised = IF u.cls = "return" THEN @ ELSE u]
    /\ UNCHANGED bucketVars

AdapterNext ==
    \/ Send /\ UNCHANGED <<limVars, dbVars, runVars>>
    \/ (\E g \in GateOutcomes : SendGate(g)) /\ UNCHANGED <<limVars, dbVars, runVars>>
    \/ (\E u \in UpstreamOutcomes : SendUpstream(u)) /\ UNCHANGED <<limVars, dbVars, runVars>>

AdapterInit == LimInit /\ blocking = TRUE /\ recording = FALSE /\ DbInit /\ DmInit /\ kind = "metadata"

SpecAdapter == AdapterInit /\ [][AdapterNext]_vars

\* ------------------------------------------------------------- supervisor
\* btn_scrape.main runs two daemons: the scraper modelled above and a peer, any
\* other Daemon, of which only the state of its run() is kept.  a_first: the
\* peer comes first in the dict of daemons.
Supervising(first) ==
    [pc |-> "wait", i |-> 1, a_first |-> first, a |-> "running", a_term |-> FALSE,
     raised |-> "none"]

\* the daemon at position i of the dict is the peer
IsPeer(i) == (i = 1) = sup.a_first

\* the scraper's run() has completed, normally or with an exception
ScraperEnded == dpc \in {"done", "crashed"}

PeerEnded == sup.a \in {"returned", "raised"}

\* a variant of the loop that ends after the first daemon
SupAdvanceOnce(pc) == [sup EXCEPT !.pc = pc, !.i = 1]

\* the position after the daemon at position sup.i, in a loop followed by pc
SupAdvance(pc) ==
    IF sup.i = 2 THEN [sup EXCEPT !.pc = pc, !.i = 1] ELSE [sup EXCEPT !.i = 2]

\* the peer's run() ends: with an exception at any time, normally at any time
\* as well (Daemon.run is abstract)
PeerEnds(how) ==
    /\ sup.a = "running"
    /\ sup' = [sup EXCEPT !.a = how]
    /\ UNCHANGED <<soloVars, siteVars, limVars, dbVars>>

\* the peer's run() returns because terminate() was called on it
PeerObeys ==
    /\ sup.a_term
    /\ PeerEnds("returned")

\* concurrent.futures.wait(futures, return_when=FIRST_COMPLETED) returns
SupWaitReturns ==
    /\ sup.pc = "wait"
    /\ ScraperEnded \/ PeerEnded
    /\ sup' = [sup EXCEPT !.pc = "terminate", !.i = 1]
    /\ UNCHANGED <<soloVars, siteVars, limVars, dbVars>>

\* for daemon in daemons.values(): daemon.terminate(), the peer's turn
SupTerminatePeer ==
    /\ sup.pc = "terminate"
    /\ IsPeer(sup.i)
    /\ sup' = [SupAdvance("results") EXCEPT !.a_term = TRUE]
    /\ UNCHANGED <<soloVars, siteVars, limVars, dbVars>>

\* the same loop, the scraper's turn: terminate() is entered
SupTerminateScraper ==
    /\ sup.pc = "terminate"
    /\ ~IsPeer(sup.i)
    /\ TerminateBase

\* the scraper's terminate() has returned
SupTerminatedScraper ==
    /\ sup.pc = "terminate"
    /\ ~IsPeer(sup.i)
    /\ tpc = "done"
    /\ sup' = SupAdvance("results")
    /\ UNCHANGED <<soloVars, siteVars, limVars, dbVars>>

\* future.result() of the daemon at position i returns or raises
ResultReady(i) == IF IsPeer(i) THEN PeerEnded ELSE ScraperEnded

\* for future in futures: future.result()
SupResult ==
    /\ sup.pc = "results"
    /\ ResultReady(sup.i)
    /\ sup' = IF IsPeer(sup.i) /\ sup.a = "raised"
                  THEN [sup EXCEPT !.pc = "raised", !.raised = "peer"]
              ELSE IF ~IsPeer(sup.i) /\ dpc = "crashed"
                  THEN [sup EXCEPT !.pc = "raised", !.raised = "scraper"]
              ELSE SupAdvance("returned")
    /\ UNCHANGED <<soloVars, siteVars, limVars, dbVars>>

SupStep ==
    \/ SupWaitReturns
    \/ SupTerminatePeer
    \/ SupTerminateScraper
    \/ SupTerminatedScraper
    \/ SupResult

\* the replies the scraper gets while it is supervised: results, a status
\* that is fatal and one that is not
SupReplies == {Reply("ok", 200, 0), Reply("ok", 400, 0), Reply("ok", 500, 0)}

\* the scraper's thread, as DaemonStep
SupScraperStep ==
    \/ RunLoop
    \/ SleepWake
    \/ SiteTryCall
    \/ SiteWaitOrRaise
    \/ SiteWake
    \/ \E outcome \in SupReplies \cap HttpOutcomes, differs \in BOOLEAN : CheckChanges(outcome, differs)
    \/ ApiTryCall
    \/ ApiWaitOrRaise
    \/ ApiWake
    \/ \E outcome \in SupReplies \cap ApiOutcomes : ApiResponse(outcome)
    \/ \E outcome \in {"ok", "locked"}, more \in BOOLEAN : ApplyUpdate(outcome, more)

\* the main thread: the loops of main and the terminate() it is inside of
MainStep == SupStep \/ TerminateRest

SupNext ==
    \/ SupScraperStep
    \/ MainStep
    \/ \E how \in {"returned", "raised"} : PeerEnds(how)
    \/ now < DaemonMaxTime /\ dpc \notin {"done", "crashed"} /\ Tick /\ UNCHANGED nonLimVars

SupInit ==
    /\ LimInit /\ blocking = TRUE /\ recording = FALSE
    /\ DbInit
    /\ DaemonFresh
    /\ catalog = NoCatalog
    /\ period = SnatchPeriod
    /\ sup \in {Supervising(first) : first \in BOOLEAN}

SpecSup == SupInit /\ [][SupNext]_vars

\* the same, with threads that keep being scheduled: the scraper's thread, the
\* main thread, and a peer that returns once it is terminated
SpecSupFair ==
    SpecSup /\ WF_vars(SupScraperStep) /\ WF_vars(MainStep) /\ WF_vars(PeerObeys)

\* ------------------------------------------------------------------ claims

\* the recorded successful acquire() calls in the interval (t - Period, t]
GrantsIn(t) == {i \in 1..Len(grants) : grants[i] > t - Period /\ grants[i] <= t}

\* C1: for acquire() calls made one after another on one limiter, with no
\* set_remaining call, and every time t, at most max_calls acquire() calls
\* returned successfully in (t - period, t].
C1_WindowBound == \A t \in 0..MaxTime : Cardinality(GrantsIn(t)) <= MaxCalls

\* more than max_calls passages were granted overall, the last one after a wait
C1_Witness ==
    /\ Len(grants) = MaxCalls + 1
    /\ lres["main"] = "ok"
    /\ Cardinality(GrantsIn(now)) = MaxCalls

\* C2: a sweep apply never marks an entry of the result deleted (every result id
\* ends with deleted = 0, also one that was deleted before), and every entry it
\* newly marks deleted is absent from the result and lies strictly between the
\* slice's oldest and newest entry in (time, id) order or, on the final slice,
\* strictly older than the oldest; nothing newer than the newest is touched.
C2_SweepOnlyDeletesMissing ==
    obs.op = "sweep" => obs.resultDeleted = {} /\ obs.strays = {}

C2_Witness ==
    /\ obs.op = "sweep"
    /\ obs.revived
    /\ obs.newlyMid
    /\ obs.resultDeleted = {}

\* C3: after a sweep apply, every cached entry that lies strictly between the
\* slice's oldest and newest entry in (time, id) order and is absent from the
\* slice is marked deleted.
C3_MidRangeDeleted ==
    obs.op = "sweep" => obs.missedMid = {}

\* C4: after applying the final slice every cached entry strictly older than the
\* slice's oldest entry in (time, id) order is marked deleted, and a slice that
\* is not final marks no older entry deleted.
C4_TailDeleted ==
    obs.op = "sweep" => obs.missedTail = {} /\ obs.nonFinalTail = {}

\* C5: an entity upsert writes no row whose stored values equal the incoming
\* ones, and applying the same update a second time writes no row and leaves
\* the three tables as they are.
C5_UpsertIdempotent ==
    obs.op = "upsert" => obs.rewritten = {} /\ obs.second = {}

C5_Witness ==
    /\ obs.op = "upsert"
    /\ obs.updated
    /\ obs.skipped
    /\ obs.second = {}

\* C6: every stored group's series_id names a stored series row and every
\* stored torrent entry's group_id names a stored group row, also after an
\* update moved a group to another series or an entry to another group.
C6_ParentsExist ==
    /\ \A g \in GroupIds : groups[g].present =>
            groups[g].series_id \in SeriesIds /\ series[groups[g].series_id].present
    /\ \A e \in TorrentIds : entries[e].present =>
            entries[e].group_id \in GroupIds /\ groups[entries[e].group_id].present

C6_Witness ==
    /\ obs.op = "upsert"
    /\ obs.moved
    /\ \E e \in TorrentIds : entries[e].present /\ groups[entries[e].group_id].present
            /\ series[groups[entries[e].group_id].series_id].present

\* C7: after terminate() is called on a daemon its run() eventually ends,
\* wherever the daemon thread was: in a sleep, or parked inside the API
\* limiter or the site limiter, given that the operations in progress complete.
C7_TerminateEndsRun == (tpc # "idle") ~> (dpc \in {"done", "crashed"})

C7_Witness ==
    /\ dpc = "done"
    /\ tpc = "done"
    /\ atTerm \in {"api_limiter", "site_limiter"}

\* C8: once terminate() has returned, the daemon passes no limiter gate before
\* its run() returns.
C8_NoGateAfterTerminate == lateCalls = 0

\* C9: set_remaining(k) with fewer than k usable passages left (k <= max_calls)
\* makes exactly k acquire() calls succeed without time advancing: no more than
\* k pass, and a call is refused only after k have passed.
C9_RaisingExact ==
    (sr.k >= 0 /\ sr.k > sr.prior /\ sr.k <= MaxCalls) =>
        /\ sr.ok <= sr.k
        /\ (sr.blocked => sr.ok = sr.k)

\* C10: set_remaining(k) with 0 <= k <= r usable passages left makes exactly k
\* acquire() calls succeed without time advancing, the (k+1)-th does not pass,
\* and every recorded passage (the synthesized ones included) lies in
\* (now - period, now].
C10_LoweringExact ==
    (sr.k >= 0 /\ sr.k <= sr.prior) =>
        /\ sr.ok <= sr.k
        /\ (sr.blocked => sr.ok = sr.k)
        /\ \A i \in 1..Len(calls) : calls[i] > sr.at - Period /\ calls[i] <= sr.at
        /\ \A t \in Threads : lres[t] = "WouldBlock" => sr.ok = sr.k

\* the allowance was lowered to k >= 1, k calls passed and the next was refused
C10_Witness ==
    /\ sr.k >= 1
    /\ sr.prior > sr.k
    /\ sr.ok = sr.k
    /\ sr.blocked
    /\ (~blocking => lres["main"] = "WouldBlock")
    /\ (blocking => lpc["main"] = "waiting")

\* C11: when the API answers a call made through RateLimitedAPI with
\* CallLimitExceeded, the limiter is set to zero remaining passages and the
\* error reaches the caller; as long as time has not advanced, no further call
\* passes the limiter or reaches the transport, and the call of a non-blocking
\* limiter ends with RequestWouldBlock, whatever number of passages the limiter
\* believed were left.
C11_QuotaFeedback ==
    sr.k = 0 =>
        /\ sr.ok = 0
        /\ Len(calls) = MaxCalls
        /\ dpc \notin {"api_http", "db_write"}
        /\ (sr.blocked /\ ~blocking /\ lpc["main"] = "idle") => lres["main"] = "WouldBlock"

\* the limiter believed passages were left when the quota reply came, and the
\* next call at the same instant was refused with RequestWouldBlock
C11_Witness ==
    /\ sr.k = 0
    /\ sr.prior >= 1
    /\ sr.blocked
    /\ ~blocking
    /\ tpc = "idle"
    /\ lres["main"] = "WouldBlock"

\* C12: set_blocking(False) is a broadcast wake-up, for both limiters: a thread
\* that is inside a refused acquire() when set_blocking(False) is called (parked
\* in the wait, or between its capacity check and the wait) ends that acquire()
\* by raising WouldBlock, never by passing.
C12_WaitersRaise ==
    \A t \in Threads :
        /\ lcaught[t] # "ok"
        /\ scaught[t] # "ok"

\* C13: the full-sweep scraper starts at offset 0; a step at offset k asks for
\* the page at k, applies it as a sweep at offset k and returns wait 0; with n
\* entries in the page and a reported total T the next offset is 0 when
\* k + n >= T and k + n - 1 otherwise, so that a page shares exactly one entry
\* with the page before it in the same pass.
C13_OffsetProgression ==
    /\ last.op = "none" => d_offset = 0
    /\ last.op = "sweep" =>
        /\ d_offset = IF last.k + last.n >= last.total THEN 0 ELSE last.k + last.n - 1
        /\ last.wait = 0
        /\ obs.op = "sweep"
        /\ last.n > 0 => obs.final = (last.k + last.n >= last.total)
        /\ last.shared # -1 => last.shared = 1

\* the second page of a pass was fetched at an offset above 0, began with the
\* last entry of the first page and ended the pass
C13_Witness ==
    /\ last.op = "sweep"
    /\ last.k > 0
    /\ last.shared = 1
    /\ last.n >= 2
    /\ d_offset = 0

\* C14: when the full-sweep scraper has completed a pass in which every step
\* succeeded over an unchanging catalog, every catalog entry is cached with
\* deleted = 0 and every cached entry that is not in the catalog has
\* deleted = 1, whatever the cache held before.
C14_PassCoherent ==
    (last.op = "sweep" /\ last.done = "clean") =>
        \A id \in TorrentIds :
            /\ catalog[id] # 0 =>
                    entries[id].present /\ ~entries[id].deleted /\ entries[id].time = catalog[id]
            /\ (catalog[id] = 0 /\ entries[id].present) => entries[id].deleted

\* C15: a tip scraper step with no changes pending whose feed is not empty and
\* lists, in feed order, the ids of the cache's first |feed| non-deleted
\* torrent entries by (time desc, id desc) issues no getTorrents call, leaves
\* the cache unchanged and returns a wait of at least 60 seconds.
C15_TipNoOp ==
    (last.op = "tip" /\ ~last.pending /\ last.fed /\ last.feed # <<>>
        /\ last.feed = DbIds(entries, Len(last.feed)) /\ last.feed = last.db_ids) =>
        /\ ~last.called
        /\ ~last.applied
        /\ ~last.raised
        /\ last.wait >= 60
        /\ ~changes

\* a step found a feed of two ids equal to the head of a cache that holds more
C15_Witness ==
    /\ last.op = "tip"
    /\ last.fed
    /\ Len(last.feed) = 2
    /\ last.feed = last.db_ids
    /\ \E id \in TorrentIds :
            entries[id].present /\ ~entries[id].deleted /\ \A i \in 1..2 : last.feed[i] # id
    /\ ~last.called

\* C16: the tip scraper's changes flag is set only by a feed that differs from
\* the cache and cleared only after getTorrents at offset 0 succeeded and its
\* sweep was applied; while the flag is set the feed is not fetched, and when
\* getTorrents or the apply fails the flag stays set, so that the next step
\* asks for page 0 again.
C16_TipFlag ==
    last.op = "tip" =>
        /\ (changes /\ ~last.pending) => (last.fed /\ last.feed # last.db_ids)
        /\ (last.pending /\ ~changes) => (last.called /\ last.applied /\ last.k = 0)
        /\ last.pending => (~last.asked /\ last.called /\ last.k = 0)
        /\ (last.called /\ ~last.applied) => changes
        /\ last.applied => (last.called /\ ~changes /\ obs.op = "sweep")

\* a step with the flag set asked for page 0 again, without the feed, after
\* the step before it had failed, and cleared the flag
C16_Witness ==
    /\ last.op = "tip"
    /\ last.pending
    /\ ~last.asked
    /\ last.applied
    /\ ~changes
    /\ \E id \in TorrentIds : entries[id].present

\* C17: a snatchlist step at offset k asks for results = 10000 at offset k; with
\* a page of n records and reported total T, if k + n < T the offset becomes
\* k + n, start_time is kept and the step returns 0; otherwise the offset is
\* reset to 0, start_time becomes now and the step returns
\* max(period - (now - previous start_time), 0).
C17_SnatchStep ==
    (last.op = "snatch" /\ last.at = now) =>
        /\ last.results = 10000
        /\ last.k + last.n < last.total =>
               /\ d_offset = last.k + last.n
               /\ start_time = last.started
               /\ last.wait = 0
        /\ ~(last.k + last.n < last.total) =>
               /\ d_offset = 0
               /\ start_time = last.at
               /\ last.wait = Max2(period - (last.at - last.started), 0)

\* C18: with run() honouring the waits, the starts of two consecutive full
\* passes of the snatch list are at least period apart, as long as every pass
\* so far lasted less than period.
C18_PassesApart ==
    (last.op = "snatch" /\ last.gap # -1 /\ last.short) => last.gap >= period

\* C19: SnatchEntriesUpdate.apply never changes hnr_removed of a snatch record
\* that existed before (in particular never from 1 to 0), whatever records come
\* in and whatever was applied before; a newly inserted record has
\* hnr_removed = 0; the scraped columns of every incoming record hold the
\* incoming values afterwards, and records that did not come in are untouched.
C19_HnrRemovedKept ==
    last.op = "snatch" =>
        /\ last.hnr_kept
        /\ last.hnr_new
        /\ last.scraped
        /\ last.others

\* an application overwrote the scraped column of a record whose flag the owner
\* had set, and the flag is still set
C19_Witness ==
    /\ last.op = "snatch"
    /\ last.flagged
    /\ last.at = now
    /\ \E id \in SnatchIds : snatchlist[id].present /\ snatchlist[id].hnr_removed

\* C20: in run(), the n-th consecutive step that raises a non-fatal error
\* (n >= 1) is followed by a wait of min(2^n, 300) seconds; a step that returns
\* normally resets the streak to 0 and is followed by the wait it returned (no
\* wait when that is not positive); a wait ends only when its time is over or
\* terminate() was called, and once terminate() was called it can end at once.
C20_Backoff ==
    /\ [][/\ fail_streak' > fail_streak =>
                /\ fail_streak' = fail_streak + 1
                /\ dpc' = "sleep"
                /\ dwake' = now + Min2(Pow2(fail_streak'), 300)
          /\ (last' # last /\ last'.op = "snatch") =>
                /\ fail_streak' = 0
                /\ IF last'.wait > 0 THEN dpc' = "sleep" /\ dwake' = now + last'.wait
                                     ELSE dpc' = "loop"
          /\ (dpc = "sleep" /\ dpc' # "sleep") =>
                /\ dpc' = "loop"
                /\ terminated \/ now >= dwake
          /\ (dpc = "sleep" /\ dpc' = "sleep") => dwake' = dwake]_vars
    /\ []((dpc = "sleep" /\ terminated) => ENABLED SleepWake)

\* the ninth failure in a row: the wait is the cap, not 2^9
C20_Witness ==
    /\ dpc = "sleep"
    /\ fail_streak >= 9
    /\ dwake - now = 300
    /\ last.op = "snatch"

\* C21: a step that fails with an HTTP 4xx status (API or site) or with
\* InvalidAPIKey unwinds run(); a step that fails with an HTTP 5xx status or a
\* connection error makes run() count a failure, back off and go on.
C21_TransportErrors ==
    [][(exc = NoExc /\ exc' # NoExc) =>
          /\ ((exc'.cls = "HTTPError" /\ exc'.status \in 400..499)
                  \/ exc'.cls = "InvalidAPIKeyError") =>
                 /\ dpc' = "crashed"
                 /\ fail_streak' = fail_streak
          /\ ((exc'.cls = "HTTPError" /\ exc'.status \in 500..599)
                  \/ exc'.cls = "ConnectionError") =>
                 /\ dpc' = "sleep"
                 /\ fail_streak' = fail_streak + 1
                 /\ dwake' = now + Min2(Pow2(fail_streak + 1), 300)]_vars

\* run() of a tip scraper was unwound by a 4xx of the site
C21_Witness ==
    /\ kind = "tip"
    /\ dpc = "crashed"
    /\ exc.cls = "HTTPError"
    /\ exc.status = 499
    /\ changes = FALSE

\* C22: an API error whose code is neither InvalidAPIKey nor CallLimitExceeded
\* is non-fatal for a daemon: run() does not unwind, it counts a failure and
\* backs off.
C22_OtherApiErrors ==
    [][(exc = NoExc /\ exc' # NoExc /\ exc'.cls = "APIError") =>
          /\ dpc' = "sleep"
          /\ fail_streak' = fail_streak + 1]_vars

\* C23: a step in which the API replies CallLimitExceeded does not raise: it
\* returns a wait that is not positive, so run() neither counts a failure nor
\* sleeps; the offset and the pending flag are as before, and the API limiter
\* has no passage left.
C23_CallLimit ==
    [][(exc = NoExc /\ exc'.cls = "CallLimitExceededError") =>
          /\ dpc' = "loop"
          /\ fail_streak' = 0
          /\ dwake' = dwake
          /\ d_offset' = d_offset
          /\ changes' = changes
          /\ Len(calls') = MaxCalls
          /\ ~CanCall(calls', now')]_vars

\* the tip scraper, with changes pending, was told that the call limit is
\* exceeded and is back at the top of run()
C23_Witness ==
    /\ kind = "tip"
    /\ exc.cls = "CallLimitExceededError"
    /\ dpc = "loop"
    /\ changes
    /\ ~CanCall(calls, now)

\* C24: a step that a limiter refuses with WouldBlock does not surface an
\* exception and is not counted as a failure, and it is the last step: run()
\* returns without starting another one, whoever made the limiter non-blocking.
C24_WouldBlockIsTerminal ==
    [][/\ (exc = NoExc /\ exc'.cls = "RequestWouldBlock") =>
              /\ dpc' # "crashed"
              /\ fail_streak' = 0
       /\ (exc.cls = "RequestWouldBlock" /\ dpc = "loop") => dpc' \in {"loop", "done"}]_vars

\* C25: a step whose database operation fails with "database is locked" is
\* non-fatal: run() counts a failure and backs off, and the offset and the
\* pending flag are as before, so the same page is tried again; any other SQL
\* error unwinds run().
C25_DatabaseLocked ==
    [][(exc = NoExc /\ IsA(exc'.cls, "DatabaseError")) =>
          /\ d_offset' = d_offset
          /\ changes' = changes
          /\ start_time' = start_time
          /\ IF exc'.cls = "OperationalError" /\ exc'.msg = "database is locked"
             THEN /\ dpc' = "sleep"
                  /\ fail_streak' = fail_streak + 1
                  /\ dwake' = now + Min2(Pow2(fail_streak + 1), 300)
             ELSE /\ dpc' = "crashed"
                  /\ fail_streak' = fail_streak]_vars

\* the tip scraper backs off after a locked database, changes still pending
C25_Witness ==
    /\ kind = "tip"
    /\ dpc = "sleep"
    /\ exc.msg = "database is locked"
    /\ fail_streak = 1
    /\ changes

\* C26: once the run() of any daemon has completed, normally or with an
\* exception, the supervisor gets to call terminate() on every daemon, and the
\* run() of every daemon returns, wherever the other daemon was waiting.
C26_TerminationPropagates ==
    (ScraperEnded \/ PeerEnded)
        ~> (terminated /\ tpc = "done" /\ sup.a_term /\ ScraperEnded /\ PeerEnded)

\* the peer died while the scraper was parked in the API limiter; the scraper
\* was terminated there and its run() has returned
C26_Witness ==
    /\ sup.a = "raised"
    /\ atTerm = "api_limiter"
    /\ dpc = "done"
    /\ sup.pc = "results"

\* C27: when a daemon's run() ended with an exception, main re-raises it only
\* after the run() of every other daemon has returned, wherever the failed
\* daemon stands in the dict of daemons.
C27_RaiseAfterDrain == sup.pc = "raised" => (ScraperEnded /\ PeerEnded)

\* C28: a non-blocking acquire() on an APIRateLimiter whose window holds
\* max_calls passages raises WouldBlock(wait) and records no passage, where
\* wait = oldest passage in the window + period - now and wait > 0; and an
\* acquire() made at time now + wait, with no passage in between, is not
\* refused.
C28_WouldBlockWait ==
    \A t \in Threads :
        LET r == refusal[t]
        IN  r.n = MaxCalls =>
                /\ r.st # "refused"
                /\ r.st \in {"raised", "passed"} =>
                        /\ r.wait = r.oldest + Period - r.at
                        /\ r.wait > 0
                        /\ r.kept

\* a WouldBlock was raised some time after the oldest passage of a full window,
\* and the acquire() made when its wait had passed went through
C28_Witness ==
    /\ refusal["main"].st = "passed"
    /\ refusal["main"].n = MaxCalls
    /\ refusal["main"].oldest < refusal["main"].at
    /\ lres["main"] = "ok"

\* C29: a fresh RateLimiter with burst b lets exactly floor(b) acquire() calls
\* pass while no time elapses and refuses the next one, with a positive wait;
\* over any interval of length T at most b + r * T acquire() calls pass; and
\* after an idle time of at least b / r the bucket holds the full burst again.
\* (b = sburst / SiteInterval, r = 1 / SiteInterval.)
C29_LeakyBucket ==
    /\ now = 0 =>
            /\ Len(sgrants) <= sburst \div SiteInterval
            /\ ~SiteCanCall(zero_time, now) <=> Len(sgrants) = sburst \div SiteInterval
    /\ ~SiteCanCall(zero_time, now) => SiteWaitTime(zero_time, now) > 0
    /\ spc["main"] = "checked" => swait["main"] > 0
    /\ \A i \in 1..Len(sgrants) : \A j \in i..Len(sgrants) :
            (j - i + 1) * SiteInterval <= sburst + (sgrants[j] - sgrants[i])
    /\ (sgrants # <<>> /\ now - sgrants[Len(sgrants)] >= sburst) =>
            SiteHave(zero_time, now) = sburst

\* a bucket whose burst is not whole let floor(b) calls pass at once, refilled
\* during an idle time of b / r, let the burst pass again and refused the next
\* call
C29_Witness ==
    /\ sburst % SiteInterval # 0
    /\ Len(sgrants) = 2 * (sburst \div SiteInterval)
    /\ sburst \div SiteInterval >= 1
    /\ sgrants[1] = 0
    /\ sgrants[Len(sgrants)] = now
    /\ now >= sburst
    /\ spc["main"] = "checked"
    /\ ~sblocking

\* C30: for every request handed to the adapter the gate is called exactly once,
\* and before the upstream adapter sends; when the gate raises WouldBlock(w)
\* the request fails with RequestWouldBlock(w) and the upstream adapter is not
\* called; any other exception of the gate leaves send unchanged and the
\* upstream adapter is not called.
C30_GateBeforeSend ==
    /\ adapter.gates = IF adapter.pc = "gate" THEN adapter.reqs - 1 ELSE adapter.reqs
    /\ adapter.sent => adapter.gate.cls = "return"
    /\ adapter.pc = "upstream" => adapter.gate.cls = "return" /\ ~adapter.sent
    /\ adapter.sends <= adapter.gates
    /\ (adapter.pc = "idle" /\ IsA(adapter.gate.cls, "WouldBlock")) =>
            /\ adapter.raised = Ended("RequestWouldBlock", adapter.gate.wait)
            /\ ~adapter.sent
    /\ (adapter.pc = "idle" /\ adapter.gate.cls \notin {"none", "return"}
            /\ ~IsA(adapter.gate.cls, "WouldBlock")) =>
            /\ adapter.raised = adapter.gate
            /\ ~adapter.sent

\* after a request that went upstream, one failed with the wait of the gate's
\* WouldBlock, and after one more the gate raised another Error
C30_Witness ==
    /\ adapter.pc = "idle"
    /\ adapter.reqs >= 3
    /\ adapter.sends = 1
    /\ adapter.gate.cls = "Error"
    /\ adapter.raised.cls = "Error"

\* C31 (as stated): API.call raises a transport error on every reply whose
\* status is not 2xx.
C31_NonSuccessRaises ==
    (last.op = "call" /\ last.reply.transport = "ok"
        /\ ~(last.reply.status >= 200 /\ last.reply.status < 300)) =>
        IsA(last.raised.cls, "RequestException")

\* C31 (amended): API.call raises a transport error when the transport fails
\* or the reply has a 4xx or 5xx status; otherwise, on a reply with an error
\* object, it raises InvalidAPIKeyError for code -32001,
\* CallLimitExceededError for code -32002 and a plain APIError for every other
\* code, each carrying the code; it returns the result only when no error
\* object is present, and then returns the reply's result.
C31_ApiErrorMapping ==
    last.op = "call" =>
        LET r == last.reply
            failed == r.transport = "down" \/ (r.status >= 400 /\ r.status < 600)
        IN  /\ failed => IsA(last.raised.cls, "RequestException") /\ ~last.returned
            /\ (~failed /\ r.has_error) =>
                    /\ ~last.returned
                    /\ last.raised.status = r.code
                    /\ last.raised.cls =
                            IF r.code = 0 - 32001 THEN "InvalidAPIKeyError"
                            ELSE IF r.code = 0 - 32002 THEN "CallLimitExceededError"
                            ELSE "APIError"
            /\ last.returned =>
                    /\ ~r.has_error
                    /\ last.raised = NoExc
                    /\ last.value = r.result
            /\ (~failed /\ ~r.has_error) => last.returned

\* a reply with status 200 and an error object of code -32002 was mapped
C31_Witness ==
    /\ last.op = "call"
    /\ last.reply.status = 200
    /\ last.reply.has_error
    /\ last.reply.code = CallLimitExceeded
    /\ last.raised.cls = "CallLimitExceededError"

\* C32: after any sequence of TorrentInfoUpdate applications for an id, the
\* file_info rows of the id sorted by start satisfy start[0] = 0 and stop[i] =
\* start[i+1], and stop[last] is the total length of the info applied last.
C32_SpansTile ==
    obs.op = "info" =>
        LET rows == FileRows(file_info[obs.id])
        IN  rows # <<>> =>
                /\ rows[1].start = 0
                /\ \A k \in 1..(Len(rows) - 1) : rows[k].stop = rows[k + 1].start
                /\ rows[Len(rows)].stop = TotalLength(obs.info)

\* C33: in multi-file mode the rows of one update use name.utf-8 and
\* path.utf-8 and record encoding 'utf-8' if and only if the root has
\* name.utf-8 and every file has path.utf-8; otherwise every row uses the
\* legacy name and path with encoding null.
C33_Utf8AllOrNothing ==
    (obs.op = "info" /\ obs.info.multi) =>
        LET all_utf8 == /\ obs.info.name_utf8
                        /\ \A j \in DOMAIN obs.info.files : obs.info.files[j].path_utf8
        IN  /\ Len(obs.rows) = Len(obs.info.files)
            /\ \A k \in DOMAIN obs.rows :
                    /\ all_utf8 => obs.rows[k].names = "utf-8" /\ obs.rows[k].encoding = "utf-8"
                    /\ ~all_utf8 => obs.rows[k].names = "legacy" /\ obs.rows[k].encoding = "null"
                    /\ file_info[obs.id][k - 1] = obs.rows[k]

\* an update whose root has name.utf-8 and whose first file has path.utf-8,
\* while the second has not, wrote two legacy rows
C33_Witness ==
    /\ obs.op = "info"
    /\ obs.info.multi
    /\ Len(obs.info.files) = 2
    /\ obs.info.name_utf8
    /\ obs.info.files[1].path_utf8
    /\ ~obs.info.files[2].path_utf8
    /\ file_info[obs.id][0].encoding = "null"
    /\ file_info[obs.id][1].encoding = "null"

\* C34: EntityUpsert stores NULL for every zero-valued or empty ImdbID, TvdbID
\* and TvrageID and for a YoutubeTrailer that is '0' or empty, and stores every
\* other value unchanged.
C34_ZeroNormalised ==
    obs.op = "ext" =>
        LET e == obs.entry
            r == obs.stored
        IN  /\ r.imdb_id = IF e.ImdbID \in {"", "0"} THEN Null ELSE Text(e.ImdbID)
            /\ r.tvdb_id = IF e.TvdbID \in {"", "0", "00"} THEN Null ELSE Number(IntOf(e.TvdbID))
            /\ r.tvrage_id = IF e.TvrageID \in {"", "0", "00"} THEN Null ELSE Number(IntOf(e.TvrageID))
            /\ r.youtube_trailer =
                    IF e.YoutubeTrailer \in {"", "0"} THEN Null ELSE Text(e.YoutubeTrailer)

\* C35: when several threads call acquire() on one APIRateLimiter in any
\* interleaving, each reading the clock before it takes the lock, no recorded
\* passage that is still inside the window is removed by another thread's
\* acquire(), and at most max_calls acquire() calls of all threads together
\* return successfully in any window (t - period, t].
C35_SharedWindowBound ==
    /\ \A t \in 0..MaxTime : Cardinality(GrantsIn(t)) <= MaxCalls
    /\ Cardinality(GrantsIn(now)) <= Len(calls)

\* C36: the offset of the full-sweep scraper is never negative, and every step
\* whose page is not final (offset + n < total) leaves the offset strictly
\* larger than it was, whatever the page length n.
C36_OffsetAdvances ==
    /\ d_offset >= 0
    /\ (last.op = "sweep" /\ last.k + last.n < last.total) => d_offset > last.k

\* C37: a step of the MetadataScraper or of the SnatchlistScraper that ends with
\* an exception (API error, CallLimitExceeded, RequestWouldBlock, transport
\* error, database error in the write transaction) leaves the offset and the
\* snatchlist start_time as they were when the step began, and the step that
\* follows it requests the same offset.
C37_FailedStepKeepsOffset ==
    [][/\ last'.op = "raised" => (d_offset' = last'.k /\ start_time' = last'.started)
       /\ last.op = "raised" => last'.k = last.k]_vars

C37_Witness ==
    /\ last.op = "raised"
    /\ last.at = "db"
    /\ last.k > 0
    /\ d_offset = last.k

\* C38: when a tip-scraper step has applied page 0 and the next step fetches a
\* feed that lists exactly the newest |feed| catalog entries in (time desc,
\* id desc) order, all of them contained in the applied page, the next step
\* finds the feed equal to the cache and issues no getTorrents call, for every
\* initial cache content.
C38_TipConverges ==
    [][(/\ last.op = "tip" /\ last.applied
        /\ last'.op = "tip" /\ last'.fed
        /\ Len(last'.feed) <= Cardinality(Listed(catalog))
        /\ last'.feed = Newest(catalog, Len(last'.feed))
        /\ {last'.feed[i] : i \in DOMAIN last'.feed} \subseteq last.page)
       => (last'.feed = last'.db_ids /\ ~last'.called)]_vars

\* C39: a tip-scraper step that fetched a feed without entries treats it as
\* "no changes": it raises no exception, issues no getTorrents call and
\* returns 60.
C39_EmptyFeedNoChanges ==
    (last.op = "tip" /\ last.fed /\ last.feed = <<>>) =>
        /\ ~last.raised
        /\ ~last.called
        /\ last.wait = TipWait

\* C40: applying the same UnfilteredGetTorrentsResultUpdate(offset, result)
\* twice leaves series, groups and torrent entries as one application left
\* them, the second application's upsert changes no row and marks no further
\* entry deleted; and an application whose result has no torrents marks no
\* entry deleted, final slice or not.
C40_SweepIdempotent ==
    /\ (last.op = "applied" /\ last.times = 2) =>
            /\ series = last.once.series
            /\ groups = last.once.groups
            /\ entries = last.once.entries
            /\ UpdateTorrentEntries(last.once.entries, last.u.te_rows) = last.once.entries
            /\ NewlyDeleted(last.once.entries, entries) = {}
    /\ (last.op = "applied" /\ DOMAIN last.u.te_rows = {}) =>
            /\ NewlyDeleted(last.before.entries, entries) = {}
            /\ entries = last.before.entries

C40_Witness ==
    /\ last.op = "applied"
    /\ last.times = 2
    /\ IsFinal(last.offset, last.u.te_rows, last.total)
    /\ NewlyDeleted(last.before.entries, last.once.entries) # {}
    /\ \E id \in DOMAIN last.u.te_rows : last.before.entries[id].deleted

====
